---- MODULE Spec2Model ----
(***************************************************************************)
(* State-machine model of the heera-server grocery backend.                *)
(*                                                                         *)
(* The state is the document store: the users, addresses, products,        *)
(* orders, ledger entries (transactions) and notifications collections,    *)
(* plus the HTTP response of the request handled last.  A handler is one   *)
(* action that runs the whole handler (every read, every write and every   *)
(* mongoose pre-save hook it triggers), except in SpecDefault, SpecRace,    *)
(* SpecCancel and SpecNumber, where a handler is one action per database   *)
(* call and requests overlap.                                              *)
(*                                                                         *)
(* The specifications share the state:                                     *)
(*   SpecAddr  accounts and address book: signup, addAddress,              *)
(*             updateAddress, deleteAddress, setDefaultAddress, from an    *)
(*             empty store;                                                *)
(*   Spec      an order from placement to delivery: createOrder,           *)
(*             cancelOrder, rateOrder and the status route, from a store   *)
(*             that holds two signed-up users and a product catalog;       *)
(*   SpecPlace stock keeping: createOrder over every item list,            *)
(*             cancelOrder and reorderOrder, from the same store with a    *)
(*             catalog whose first product may be inactive or out of       *)
(*             stock;                                                      *)
(*   SpecCatalog orders of one user while the product routes and the       *)
(*             address routes change the catalog and the address book;     *)
(*   SpecOwner two users who name each other's orders and addresses;       *)
(*   SpecAuth  requests with and without a credential the guard accepts;   *)
(*   SpecDefault overlapping setDefaultAddress requests;                   *)
(*   SpecRace  overlapping createOrder requests whose writes may fail;     *)
(*   SpecCancel overlapping cancelOrder requests;                          *)
(*   SpecNumber overlapping createOrder and reorderOrder requests, with    *)
(*             the order-number hook and the insert as separate steps;     *)
(*   SpecFlags the four order requests of a user, without the status       *)
(*             route;                                                      *)
(*   SpecLogin guarded requests, logins and signups around deactivation;   *)
(*   SpecNotif the notification routes;                                    *)
(*   SpecBrowse the product list while the catalog changes.                *)
(***************************************************************************)
EXTENDS Integers, Sequences, FiniteSets, TLC

VARIABLES
  users,     \* User collection: sequence of documents, _id = index
  addrs,     \* Address collection: sequence of documents, _id = index
  products,  \* Product collection: function ProductIds -> document
  orders,    \* Order collection: sequence of documents, _id = index
  txns,      \* Transaction collection (ledger), in insertion order
  notifs,    \* Notification collection, in insertion order
  resp,      \* response of the last request: [op, status, msg, about, id]
  placed,    \* history: per order, the catalog as it was right before the order was placed
  touched,   \* history: per order, the products written by other requests since it was placed
  statusUpdates, \* number of status-route requests handled so far
  catalogWrites, \* number of product-route writes handled so far
  inflight       \* requests between two of their database calls: per request, its
                 \* position in the handler and the values it holds in local variables

vars == <<users, addrs, products, orders, txns, notifs, resp, placed, touched, statusUpdates,
          catalogWrites, inflight>>

-----------------------------------------------------------------------------
(* Bounds of the model *)

MaxAddrs == 2   \* addresses ever created

-----------------------------------------------------------------------------
(* Request inputs *)

Names == {"Asha", "Ravi"}
SignupNames == {"Asha"}
Phones == {"9000000001", "9000000002"}
BadPhone == "12345"
RawEmails == {"Asha@x.io", "asha@x.io", "ravi@x.io"}
\* ids a request can name as a user: phone is unique, so at most one user per phone
ObjectIds == 1..Cardinality(Phones)

\* body('email').isEmail().normalizeEmail(): lower-cases the address
NormalizeEmail(e) == IF e = "Asha@x.io" THEN "asha@x.io" ELSE e

\* body('phone').matches(/^\d{10}$/)
PhoneOk(p) == p \in Phones

MinPasswordLen == 6

\* body('password').isLength({ min: 6 }) and validatePassword
PasswordOk(len) == len >= MinPasswordLen

\* res.status(status).json({ success, message, ... }); id is the order the reply carries, 0 if none
Reply(op, status, msg, id) ==
  resp' = [op |-> op, status |-> status, msg |-> msg, about |-> "", id |-> id]

\* a reply whose message names a product: the message template and the name put into it
ReplyAbout(op, status, msg, about) ==
  resp' = [op |-> op, status |-> status, msg |-> msg, about |-> about, id |-> 0]

-----------------------------------------------------------------------------
(* Auth guard *)

UserIds == 1..Len(users)

\* the outcome of a request the guard lets through: next() is called
Passed == [status |-> 0, msg |-> ""]

Denied(msg) == [status |-> 401, msg |-> msg]

\* a credential is the token the request carries, if any: whether jwt.verify
\* accepts it, and the user id in its payload
Token(kind, id) == [kind |-> kind, id |-> id]

\* the user lookup alone, without the isActive test
AuthenticatedAnyUser(u) == u \in UserIds

\* User.findById(decoded.id) finds the user, and user.isActive holds
Authenticated(u) == u \in UserIds /\ users[u].isActive

\* authMiddleware: token present, jwt.verify, User.findById(decoded.id), isActive
authMiddleware(cred) ==
  IF cred.kind = "none" THEN Denied("Access denied. No token provided.")
  ELSE IF cred.kind = "expired" THEN Denied("Token expired. Please login again.")
  ELSE IF cred.kind = "invalid" THEN Denied("Invalid token. Please login again.")
  ELSE IF cred.id \notin UserIds THEN Denied("Token is no longer valid. User not found.")
  ELSE IF ~Authenticated(cred.id) THEN Denied("User account is deactivated.")
  ELSE Passed

-----------------------------------------------------------------------------
(* Address collection *)

AddrIds == 1..Len(addrs)

\* Address.findOne({ _id: id, userId: u })
OwnAddress(u, id) == id \in AddrIds /\ ~addrs[id].deleted /\ addrs[id].userId = u

AddressesOf(as, u) == {a \in 1..Len(as) : ~as[a].deleted /\ as[a].userId = u}

DefaultsOf(as, u) == {a \in AddressesOf(as, u) : as[a].isDefault}

\* addressSchema.pre('save'): a document saved with isDefault set unsets the
\* flag on every other address of the same user
PreSaveAddress(as, id, doc) ==
  [a \in 1..Len(as) |->
     IF doc.isDefault /\ a # id /\ ~as[a].deleted /\ as[a].userId = doc.userId
     THEN [as[a] EXCEPT !.isDefault = FALSE]
     ELSE as[a]]

\* Address.create(doc): pre-save hook, then insert
AddressCreate(as, doc) == Append(PreSaveAddress(as, Len(as) + 1, doc), doc)

\* doc.save() on a loaded document: pre-save hook, then write the document
AddressSave(as, id, doc) == [PreSaveAddress(as, id, doc) EXCEPT ![id] = doc]

NewAddress(u, name, isDefault) ==
  [userId |-> u, name |-> name, isDefault |-> isDefault, deleted |-> FALSE]

\* the slot of a document removed by findByIdAndDelete: ids are never reused
Removed == [userId |-> 0, name |-> "", isDefault |-> FALSE, deleted |-> TRUE]

NewUser(email, phone) ==
  [email |-> email, phone |-> phone, isActive |-> TRUE, totalOrders |-> 0, totalSpent |-> 0]

\* the lookup by email alone: User.findOne({ email })
ExistingUsersEmailOnly(email, phone) == {u \in UserIds : users[u].email = email}

\* User.findOne({ $or: [{ email }, { phone }] }): the documents the query matches
ExistingUsers(email, phone) ==
  {u \in UserIds : users[u].email = email \/ users[u].phone = phone}

\* `${field} is already registered`
DuplicateMessage(existingUser, email) ==
  IF users[existingUser].email = email
  THEN "Email is already registered"
  ELSE "Phone number is already registered"

orderVars == <<products, orders, txns, notifs, placed, touched, statusUpdates,
               catalogWrites, inflight>>

\* POST /api/auth/signup
signup(name, rawEmail, phone, pwLen) ==
  LET email == NormalizeEmail(rawEmail)
      existing == ExistingUsers(email, phone)
  IN
  /\ UNCHANGED orderVars
  /\ \/ /\ ~(PhoneOk(phone) /\ PasswordOk(pwLen))
        /\ Reply("signup", 400, "Validation failed", 0)
        /\ UNCHANGED <<users, addrs>>
     \/ /\ PhoneOk(phone) /\ PasswordOk(pwLen)
        /\ \E existingUser \in existing :
             Reply("signup", 400,
                   DuplicateMessage(existingUser, email), 0)
        /\ UNCHANGED <<users, addrs>>
     \/ /\ PhoneOk(phone) /\ PasswordOk(pwLen)
        /\ existing = {}
        /\ Len(addrs) < MaxAddrs
        /\ users' = Append(users, NewUser(email, phone))
        /\ addrs' = AddressCreate(addrs, NewAddress(Len(users) + 1, name, TRUE))
        /\ Reply("signup", 201, "User registered successfully", 0)

\* POST /api/addresses; body.isDefault is "true", "false" or "absent"
addAddress(u, name, isDefault) ==
  /\ Authenticated(u)
  /\ Len(addrs) < MaxAddrs
  /\ UNCHANGED orderVars
  /\ UNCHANGED users
  /\ LET existingAddresses == Cardinality(AddressesOf(addrs, u))
         flag == IF existingAddresses = 0 THEN TRUE ELSE isDefault = "true"
     IN /\ addrs' = AddressCreate(addrs, NewAddress(u, name, flag))
        /\ Reply("addAddress", 201, "Address added successfully", 0)

\* the update document of updateAddress: the body without isDefault
UpdateData(body) == [name |-> body.name, userId |-> body.userId]

\* PUT /api/addresses/:id; absent body fields are "" (name), "absent" (isDefault), 0 (userId)
updateAddress(u, id, body) ==
  /\ Authenticated(u)
  /\ UNCHANGED orderVars
  /\ UNCHANGED users
  /\ \/ /\ ~OwnAddress(u, id)
        /\ Reply("updateAddress", 404, "Address not found", 0)
        /\ UNCHANGED addrs
     \/ /\ OwnAddress(u, id)
        /\ LET updateData == UpdateData(body)
               doc == [addrs[id] EXCEPT
                         !.name = IF updateData.name = "" THEN @ ELSE updateData.name,
                         !.userId = IF updateData.userId = 0 THEN @ ELSE updateData.userId]
           IN addrs' = [addrs EXCEPT ![id] = doc]
        /\ Reply("updateAddress", 200, "Address updated successfully", 0)

\* DELETE /api/addresses/:id
deleteAddress(u, id) ==
  /\ Authenticated(u)
  /\ UNCHANGED orderVars
  /\ UNCHANGED users
  /\ \/ /\ ~OwnAddress(u, id)
        /\ Reply("deleteAddress", 404, "Address not found", 0)
        /\ UNCHANGED addrs
     \/ /\ OwnAddress(u, id)
        /\ LET others == AddressesOf(addrs, u) \ {id}
               remove(as) == [as EXCEPT ![id] = Removed]
           IN IF addrs[id].isDefault /\ others # {}
              THEN \E otherAddress \in others :
                     addrs' = remove(AddressSave(addrs, otherAddress,
                                       [addrs[otherAddress] EXCEPT !.isDefault = TRUE]))
              ELSE addrs' = remove(addrs)
        /\ Reply("deleteAddress", 200, "Address deleted successfully", 0)

\* PUT /api/addresses/:id/set-default
setDefaultAddress(u, id) ==
  /\ Authenticated(u)
  /\ UNCHANGED orderVars
  /\ UNCHANGED users
  /\ \/ /\ ~OwnAddress(u, id)
        /\ Reply("setDefaultAddress", 404, "Address not found", 0)
        /\ UNCHANGED addrs
     \/ /\ OwnAddress(u, id)
        /\ LET cleared == [a \in AddrIds |->
                             IF ~addrs[a].deleted /\ addrs[a].userId = u /\ a # id
                             THEN [addrs[a] EXCEPT !.isDefault = FALSE]
                             ELSE addrs[a]]
           IN addrs' = AddressSave(cleared, id, [addrs[id] EXCEPT !.isDefault = TRUE])
        /\ Reply("setDefaultAddress", 200, "Default address updated successfully", 0)

\* PUT /api/users/deactivate
deactivateAccount(u) ==
  /\ Authenticated(u)
  /\ users' = [users EXCEPT ![u].isActive = FALSE]
  /\ Reply("deactivateAccount", 200, "Account deactivated successfully", 0)
  /\ UNCHANGED addrs
  /\ UNCHANGED orderVars

-----------------------------------------------------------------------------
(* Accounts and address book, from an empty store *)

NoResp == [op |-> "none", status |-> 0, msg |-> "", about |-> "", id |-> 0]

InitAddr ==
  /\ users = <<>>
  /\ addrs = <<>>
  /\ products = <<>>
  /\ orders = <<>>
  /\ txns = <<>>
  /\ notifs = <<>>
  /\ placed = <<>>
  /\ touched = <<>>
  /\ statusUpdates = 0
  /\ catalogWrites = 0
  /\ inflight = <<>>
  /\ resp = NoResp

Bodies == [name : (Names \ SignupNames) \cup {""}, isDefault : {"true", "absent"}, userId : ObjectIds \cup {0}]

NextAddr ==
  \/ \E name \in SignupNames, e \in RawEmails, p \in Phones \cup {BadPhone}, n \in {MinPasswordLen - 1, MinPasswordLen} :
       signup(name, e, p, n)
  \/ \E u \in ObjectIds, name \in SignupNames, d \in {"true", "false", "absent"} :
       addAddress(u, name, d)
  \/ \E u \in ObjectIds, id \in 1..MaxAddrs, body \in Bodies :
       updateAddress(u, id, body)
  \/ \E u \in ObjectIds, id \in 1..MaxAddrs : deleteAddress(u, id)
  \/ \E u \in ObjectIds, id \in 1..MaxAddrs : setDefaultAddress(u, id)

SpecAddr == InitAddr /\ [][NextAddr]_vars

-----------------------------------------------------------------------------
(* Claims about accounts and the address book (checked under SpecAddr) *)

\* C1: with address requests run one at a time, in every reachable state
\* every user has at most one address with isDefault = true.
C1_AtMostOneDefault ==
  \A u \in ObjectIds : Cardinality(DefaultsOf(addrs, u)) <= 1

SignupInputs ==
  [name : SignupNames, email : RawEmails, phone : Phones,
   pwLen : {MinPasswordLen - 1, MinPasswordLen}]

PhoneRegistered(p) == \E u \in UserIds : users[u].phone = p

EmailRegistered(e) == \E u \in UserIds : users[u].email = NormalizeEmail(e)

\* a step that handles a well-formed signup whose phone is already registered
SignupDuplicatePhone(i) ==
  /\ PasswordOk(i.pwLen)
  /\ PhoneRegistered(i.phone)
  /\ signup(i.name, i.email, i.phone, i.pwLen)

\* C7 as stated: every signup whose phone number is already registered is
\* answered 400 "Phone number is already registered", whatever the submitted
\* email, and creates no user and no address.
C7_DuplicatePhoneNamesPhone ==
  [][resp'.op = "signup" =>
       \A i \in SignupInputs :
         SignupDuplicatePhone(i) =>
           /\ resp'.status = 400
           /\ resp'.msg = "Phone number is already registered"
           /\ UNCHANGED <<users, addrs>>]_vars

\* C7 amended: such a signup is answered 400 and creates no user and no
\* address; the message names "Phone number" whenever no existing user has
\* the submitted email, and names "Email" only if some existing user has it.
C7_DuplicatePhoneRejected ==
  [][resp'.op = "signup" =>
       \A i \in SignupInputs :
         SignupDuplicatePhone(i) =>
           /\ resp'.status = 400
           /\ UNCHANGED <<users, addrs>>
           /\ resp'.msg \in {"Phone number is already registered",
                             "Email is already registered"}
           /\ ~EmailRegistered(i.email) =>
                 resp'.msg = "Phone number is already registered"
           /\ resp'.msg = "Email is already registered" => EmailRegistered(i.email)]_vars

\* a signup was rejected because the phone number is taken
C7_Witness ==
  /\ resp.op = "signup"
  /\ resp.status = 400
  /\ resp.msg = "Phone number is already registered"
  /\ Len(users) >= 1

\* C22: every user who has at least one address has at least one address
\* with isDefault = true, in every state address requests reach one at a time.
C22_SomeDefault ==
  \A u \in ObjectIds : AddressesOf(addrs, u) # {} => DefaultsOf(addrs, u) # {}

\* C29: for every request body, updateAddress leaves the isDefault flag and
\* the owner of the address unchanged and every other address unchanged, so
\* that no user's set of addresses and no user's default address changes.
C29_UpdateKeepsOwnerAndDefault ==
  [][resp'.op = "updateAddress" =>
       \A u \in ObjectIds, id \in 1..MaxAddrs, body \in Bodies :
         updateAddress(u, id, body) =>
           /\ \A a \in AddrIds :
                /\ addrs'[a].isDefault = addrs[a].isDefault
                /\ addrs'[a].userId = addrs[a].userId
                /\ a # id => addrs'[a] = addrs[a]
           /\ \A w \in ObjectIds :
                /\ AddressesOf(addrs', w) = AddressesOf(addrs, w)
                /\ DefaultsOf(addrs', w) = DefaultsOf(addrs, w)]_vars

-----------------------------------------------------------------------------
(* Order workflow: bounds and request inputs *)

MaxStock == 2          \* stockCount of a catalog product at the start
MaxQty == 2            \* largest quantity a request item asks for
MaxItems == 2          \* longest item list of a createOrder request
MaxOrders == 2         \* orders ever created
MaxStatusUpdates == 2  \* status-route requests handled
MaxCatalogWrites == 1  \* product-route writes handled
MaxInflight == 2       \* requests started in a specification that interleaves them
MaxNotifs == 2         \* notifications stored through createNotification

OrderStatuses ==
  {"pending", "confirmed", "preparing", "out_for_delivery", "delivered", "cancelled"}

FreeDeliveryFrom == 500
DeliveryFee == 40
MinRating == 1
MaxRating == 5

-----------------------------------------------------------------------------
(* Product collection *)

\* Product.findById(id) finds a document
ProductFound(ps, id) == id \in 1..Len(ps) /\ ~ps[id].deleted

\* the availability check alone, without the comparison of stockCount and quantity
ItemCheckNoStock(ps, item) ==
  IF \/ ~ProductFound(ps, item.productId)
     \/ ~ps[item.productId].isActive
     \/ ~ps[item.productId].inStock
  THEN "unavailable"
  ELSE "ok"

\* the availability and stock checks createOrder and reorderOrder make on one item
ItemCheck(ps, item) ==
  IF \/ ~ProductFound(ps, item.productId)
     \/ ~ps[item.productId].isActive
     \/ ~ps[item.productId].inStock
  THEN "unavailable"
  ELSE IF ps[item.productId].stockCount < item.quantity
       THEN "insufficient"
       ELSE "ok"

\* the first item of the list that fails its check (where createOrder returns), 0 if none
FirstRejected(ps, items) ==
  LET bad == {i \in 1..Len(items) : ItemCheck(ps, items[i]) # "ok"}
  IN IF bad = {} THEN 0 ELSE CHOOSE i \in bad : \A j \in bad : i <= j

\* product?.name || 'Unknown'
NameOrUnknown(ps, id) == IF ProductFound(ps, id) THEN ps[id].name ELSE "Unknown"

\* the snapshot with the price the request carries
OrderItemClientPrice(ps, item) ==
  [productId |-> item.productId,
   name      |-> ps[item.productId].name,
   quantity  |-> item.quantity,
   price     |-> item.price,
   image     |-> ps[item.productId].image]

\* the snapshot pushed to orderItems: name and price are the product's current ones
OrderItem(ps, item) ==
  [productId |-> item.productId,
   name      |-> ps[item.productId].name,
   quantity  |-> item.quantity,
   price     |-> ps[item.productId].price,
   image     |-> ps[item.productId].image]

OrderItems(ps, items) == [i \in 1..Len(items) |-> OrderItem(ps, items[i])]

\* totalAmount += product.price * item.quantity, item by item
RECURSIVE TotalAmount(_)
TotalAmount(orderItems) ==
  IF orderItems = <<>> THEN 0
  ELSE TotalAmount(SubSeq(orderItems, 1, Len(orderItems) - 1))
         + orderItems[Len(orderItems)].price * orderItems[Len(orderItems)].quantity

\* the fee rule with a strict comparison: free delivery above, not from, the threshold
DeliveryFeeAbove(totalAmount) == IF totalAmount > FreeDeliveryFrom THEN 0 ELSE DeliveryFee

\* totalAmount >= 500 ? 0 : 40
DeliveryFeeFor(totalAmount) == IF totalAmount >= FreeDeliveryFrom THEN 0 ELSE DeliveryFee

\* Product.findByIdAndUpdate(item.productId, { $inc: { stockCount: -sign*q, totalSold: sign*q } })
\* for each item in turn; sign is 1 when placing and -1 when cancelling
RECURSIVE IncStock(_, _, _)
IncStock(ps, orderItems, sign) ==
  IF orderItems = <<>> THEN ps
  ELSE LET it == Head(orderItems)
           after == IF ProductFound(ps, it.productId)
                    THEN [ps EXCEPT ![it.productId].stockCount = @ - sign * it.quantity,
                                    ![it.productId].totalSold = @ + sign * it.quantity]
                    ELSE ps
       IN IncStock(after, Tail(orderItems), sign)

\* the stock update applied to the first item only
TakeStockFirstItem(ps, orderItems) == IncStock(ps, SubSeq(orderItems, 1, 1), 1)

\* createOrder / reorderOrder, "Update product stock and sales"
TakeStock(ps, orderItems) == IncStock(ps, orderItems, 1)

\* a restore that puts back stockCount and leaves totalSold
RestoreStockCountOnly(ps, orderItems) ==
  [p \in 1..Len(ps) |->
     [ps[p] EXCEPT !.stockCount = IncStock(ps, orderItems, -1)[p].stockCount]]

\* cancelOrder, "Restore product stock"
RestoreStock(ps, orderItems) == IncStock(ps, orderItems, -1)

-----------------------------------------------------------------------------
(* Order collection *)

OrderIds == 1..Len(orders)

\* the lookup by id alone: Order.findById(id)
OwnOrderAnyUser(u, id) == id \in OrderIds

\* Order.findOne({ _id: id, userId })
OwnOrder(u, id) == id \in OrderIds /\ orders[id].userId = u

RECURSIVE Digits(_)
Digits(n) == IF n < 10 THEN <<n>> ELSE Append(Digits(n \div 10), n % 10)

\* String.prototype.padStart(width, '0') on a digit string
PadStart(ds, width) == [i \in 1..(width - Len(ds)) |-> 0] \o ds

\* orderSchema.pre('save'), first hook: `HRA${String(count + 1).padStart(6, '0')}`
OrderNumber(count) == [prefix |-> "HRA", digits |-> PadStart(Digits(count + 1), 6)]

\* the amount without the delivery fee
FinalAmountNoFee(doc) == doc.totalAmount - doc.discount

\* orderSchema.pre('save'), second hook: totalAmount + deliveryFee - discount
FinalAmount(doc) == doc.totalAmount + doc.deliveryFee - doc.discount

\* the document handed to Order.create, with the schema defaults filled in
NewOrder(u, orderItems, totalAmount, deliveryFee, finalAmount, deliveryAddress, paymentMethod) ==
  [userId          |-> u,
   orderNumber     |-> [prefix |-> "", digits |-> <<>>],
   status          |-> "pending",
   items           |-> orderItems,
   totalAmount     |-> totalAmount,
   deliveryFee     |-> deliveryFee,
   discount        |-> 0,
   finalAmount     |-> finalAmount,
   deliveryAddress |-> deliveryAddress,
   paymentMethod   |-> paymentMethod,
   orderTracking   |-> <<"Order Placed">>,
   canCancel       |-> TRUE,
   canReorder      |-> FALSE,
   canRate         |-> FALSE,
   rating          |-> 0,
   review          |-> ""]

\* Order.create(doc): both pre-save hooks run on the new document, then it is inserted
\* orderNumber: { unique: true } with the index left out
OrderNumberFreeUnchecked(os, number) == TRUE

\* orderNumber: { unique: true }: no stored order has the number
OrderNumberFree(os, number) == \A o \in 1..Len(os) : os[o].orderNumber # number

\* the insert of a new document whose hook counted `count` orders
OrderInsert(os, doc, count) ==
  Append(os, [doc EXCEPT !.orderNumber = OrderNumber(count),
                         !.finalAmount = FinalAmount(doc)])

\* Order.create with nothing between the hook's count and the insert
OrderCreate(os, doc) == OrderInsert(os, doc, Len(os))

\* order.save() on a loaded document: the second hook recomputes finalAmount
\* only when totalAmount, deliveryFee or discount was modified
OrderSave(os, id, doc) ==
  LET modified == \/ doc.totalAmount # os[id].totalAmount
                  \/ doc.deliveryFee # os[id].deliveryFee
                  \/ doc.discount # os[id].discount
  IN [os EXCEPT ![id] = IF modified THEN [doc EXCEPT !.finalAmount = FinalAmount(doc)]
                        ELSE doc]

\* the deliveryAddress snapshot createOrder copies out of the address document
AddressSnapshot(address) == [name |-> address.name]

NewTransaction(u, id, order, finalAmount, paymentMethod) ==
  [userId        |-> u,
   orderId       |-> id,
   orderNumber   |-> order.orderNumber,
   amount        |-> finalAmount,
   status        |-> IF paymentMethod = "cod" THEN "pending" ELSE "completed",
   paymentMethod |-> paymentMethod]

NewNotification(u, type, title, id) ==
  [userId |-> u, type |-> type, title |-> title, orderId |-> id, isRead |-> FALSE,
   deleted |-> FALSE]

\* the products an order's items name
ProductsOf(order) == {order.items[i].productId : i \in 1..Len(order.items)}

\* stockCount and totalSold of every product
Counters(ps) == [p \in 1..Len(ps) |-> [stockCount |-> ps[p].stockCount, totalSold |-> ps[p].totalSold]]

\* history bookkeeping of a request that wrote the products `written`; `own` is
\* the order the request cancelled (0 if it placed one)
Touch(written, own) ==
  [o \in 1..Len(touched) |-> IF o = own THEN ProductsOf(orders[o]) \cup touched[o]
                             ELSE touched[o] \cup written]

\* body('items').isArray({ min: 1 }), body('items.*.quantity').isInt({ min: 1 }),
\* body('paymentMethod').isIn([...])
CreateOrderValid(items, paymentMethod) ==
  /\ Len(items) >= 1
  /\ \A i \in 1..Len(items) : items[i].quantity >= 1
  /\ paymentMethod \in {"cod", "upi", "card", "wallet", "netbanking"}

\* the writes createOrder and reorderOrder make once the items are accepted
PlaceOrder(op, u, orderItems, deliveryAddress, paymentMethod, title, msg) ==
  LET totalAmount == TotalAmount(orderItems)
      deliveryFee == DeliveryFeeFor(totalAmount)
      finalAmount == totalAmount + deliveryFee - 0
      id == Len(orders) + 1
      created == OrderCreate(orders, NewOrder(u, orderItems, totalAmount, deliveryFee,
                                              finalAmount, deliveryAddress, paymentMethod))
  IN /\ Len(orders) < MaxOrders
     /\ orders' = created
     /\ products' = TakeStock(products, orderItems)
     /\ users' = [users EXCEPT ![u].totalOrders = @ + 1, ![u].totalSpent = @ + finalAmount]
     /\ txns' = Append(txns, NewTransaction(u, id, created[id], finalAmount, paymentMethod))
     /\ notifs' = Append(notifs, NewNotification(u, "order", title, id))
     /\ placed' = Append(placed, Counters(products))
     /\ touched' = Append(Touch({it.productId : it \in {orderItems[i] : i \in 1..Len(orderItems)}}, 0), {})
     /\ Reply(op, 201, msg, id)

store == <<users, products, orders, txns, notifs, placed, touched>>

\* POST /api/orders
createOrder(u, items, deliveryAddressId, paymentMethod) ==
  LET rejected == FirstRejected(products, items)
  IN /\ Authenticated(u)
     /\ UNCHANGED <<addrs, statusUpdates, catalogWrites, inflight>>
     /\ \/ /\ ~CreateOrderValid(items, paymentMethod)
           /\ Reply("createOrder", 400, "Validation failed", 0)
           /\ UNCHANGED store
        \/ /\ CreateOrderValid(items, paymentMethod)
           /\ ~OwnAddress(u, deliveryAddressId)
           /\ Reply("createOrder", 400, "Invalid delivery address", 0)
           /\ UNCHANGED store
        \/ /\ CreateOrderValid(items, paymentMethod)
           /\ OwnAddress(u, deliveryAddressId)
           /\ rejected # 0
           /\ IF ItemCheck(products, items[rejected]) = "unavailable"
              THEN ReplyAbout("createOrder", 400, "Product is not available",
                              NameOrUnknown(products, items[rejected].productId))
              ELSE ReplyAbout("createOrder", 400, "Insufficient stock",
                              products[items[rejected].productId].name)
           /\ UNCHANGED store
        \/ /\ CreateOrderValid(items, paymentMethod)
           /\ OwnAddress(u, deliveryAddressId)
           /\ rejected = 0
           /\ PlaceOrder("createOrder", u, OrderItems(products, items),
                         AddressSnapshot(addrs[deliveryAddressId]), paymentMethod,
                         "Order Placed Successfully!", "Order placed successfully")

\* the status test alone, without the canCancel flag
CancelBlockedNoFlag(order) ==
  order.status = "delivered" \/ order.status = "cancelled"

\* a cancellation that nothing blocks
CancelBlockedNever(order) == FALSE

\* !order.canCancel || order.status === 'delivered' || order.status === 'cancelled'
CancelBlocked(order) ==
  ~order.canCancel \/ order.status = "delivered" \/ order.status = "cancelled"

\* the cancellation without the two flag updates
CancelledNoFlags(order) ==
  [order EXCEPT !.status = "cancelled",
                !.orderTracking = Append(@, "Order Cancelled")]

\* GET /api/orders/:id
getOrder(u, id) ==
  /\ Authenticated(u)
  /\ UNCHANGED <<addrs, statusUpdates, catalogWrites, inflight>>
  /\ UNCHANGED store
  /\ IF OwnOrder(u, id)
     THEN Reply("getOrder", 200, "", id)
     ELSE Reply("getOrder", 404, "Order not found", 0)

\* a cancellation that also empties the item list
CancelledItemsCleared(order) ==
  [order EXCEPT !.status = "cancelled",
                !.canCancel = FALSE,
                !.canReorder = TRUE,
                !.items = <<>>,
                !.orderTracking = Append(@, "Order Cancelled")]

\* a cancellation that leaves canCancel as it was
CancelledStillCancellable(order) ==
  [order EXCEPT !.status = "cancelled",
                !.canReorder = TRUE,
                !.orderTracking = Append(@, "Order Cancelled")]

\* the changes cancelOrder makes to the loaded order before saving it
Cancelled(order) ==
  [order EXCEPT !.status = "cancelled",
                !.canCancel = FALSE,
                !.canReorder = TRUE,
                !.orderTracking = Append(@, "Order Cancelled")]

\* a cancellation that leaves the ledger alone
CancelTransactionSkipped(ts, id, u) == {ts}

\* Transaction.findOneAndUpdate({ orderId, userId }, { status: 'cancelled' }):
\* updates one matching document
CancelTransaction(ts, id, u) ==
  LET match == {t \in 1..Len(ts) : ts[t].orderId = id /\ ts[t].userId = u}
  IN IF match = {} THEN {ts}
     ELSE {[ts EXCEPT ![t].status = "cancelled"] : t \in match}

\* PUT /api/orders/:id/cancel
cancelOrder(u, id) ==
  /\ Authenticated(u)
  /\ UNCHANGED <<addrs, statusUpdates, catalogWrites, inflight>>
  /\ \/ /\ ~OwnOrder(u, id)
        /\ Reply("cancelOrder", 404, "Order not found", 0)
        /\ UNCHANGED store
     \/ /\ OwnOrder(u, id)
        /\ CancelBlocked(orders[id])
        /\ Reply("cancelOrder", 400, "This order cannot be cancelled", 0)
        /\ UNCHANGED store
     \/ /\ OwnOrder(u, id)
        /\ ~CancelBlocked(orders[id])
        /\ LET order == Cancelled(orders[id])
           IN /\ orders' = OrderSave(orders, id, order)
              /\ products' = RestoreStock(products, order.items)
              /\ users' = [users EXCEPT ![u].totalOrders = @ - 1,
                                        ![u].totalSpent = @ - order.finalAmount]
              /\ txns' \in CancelTransaction(txns, id, u)
              /\ notifs' = Append(notifs, NewNotification(u, "order", "Order Cancelled", id))
              /\ placed' = placed
              /\ touched' = Touch(ProductsOf(order), id)
        /\ Reply("cancelOrder", 200, "Order cancelled successfully", id)

\* the items that pass the checks, kept as the original order holds them
ReorderableOldPrices(ps, items) ==
  LET passes(item) == ItemCheck(ps, item) = "ok"
  IN SelectSeq(items, passes)

\* the item list re-snapshot without any availability or stock check
ReorderableUnchecked(ps, items) == OrderItems(ps, items)

\* the items of the original order that pass the checks now, re-priced from the catalog
RECURSIVE Reorderable(_, _)
Reorderable(ps, items) ==
  IF items = <<>> THEN <<>>
  ELSE IF ItemCheck(ps, Head(items)) = "ok"
       THEN <<OrderItem(ps, Head(items))>> \o Reorderable(ps, Tail(items))
       ELSE Reorderable(ps, Tail(items))

\* POST /api/orders/:id/reorder
reorderOrder(u, id) ==
  /\ Authenticated(u)
  /\ UNCHANGED <<addrs, statusUpdates, catalogWrites, inflight>>
  /\ \/ /\ ~OwnOrder(u, id)
        /\ Reply("reorderOrder", 404, "Original order not found", 0)
        /\ UNCHANGED store
     \/ /\ OwnOrder(u, id)
        /\ ~orders[id].canReorder
        /\ Reply("reorderOrder", 400, "This order cannot be reordered", 0)
        /\ UNCHANGED store
     \/ /\ OwnOrder(u, id)
        /\ orders[id].canReorder
        /\ Reorderable(products, orders[id].items) = <<>>
        /\ Reply("reorderOrder", 400,
                 "No products from the original order are currently available", 0)
        /\ UNCHANGED store
     \/ /\ OwnOrder(u, id)
        /\ orders[id].canReorder
        /\ Reorderable(products, orders[id].items) # <<>>
        /\ PlaceOrder("reorderOrder", u, Reorderable(products, orders[id].items),
                      orders[id].deliveryAddress, orders[id].paymentMethod,
                      "Reorder Placed Successfully!", "Reorder placed successfully")

\* body('rating').isInt({ min: 1, max: 5 })
RatingValid(rating) == rating >= MinRating /\ rating <= MaxRating

\* no check of a recorded rating
NeverRated(order) == FALSE

\* if (order.rating): a rating is already recorded
AlreadyRated(order) == order.rating # 0

\* PUT /api/orders/:id/rate
rateOrder(u, id, rating, review) ==
  /\ Authenticated(u)
  /\ UNCHANGED <<addrs, statusUpdates, catalogWrites, inflight, users, products, txns, placed, touched>>
  /\ \/ /\ ~RatingValid(rating)
        /\ Reply("rateOrder", 400, "Validation failed", 0)
        /\ UNCHANGED <<orders, notifs>>
     \/ /\ RatingValid(rating)
        /\ ~OwnOrder(u, id)
        /\ Reply("rateOrder", 404, "Order not found", 0)
        /\ UNCHANGED <<orders, notifs>>
     \/ /\ RatingValid(rating)
        /\ OwnOrder(u, id)
        /\ ~orders[id].canRate \/ orders[id].status # "delivered"
        /\ Reply("rateOrder", 400, "This order cannot be rated", 0)
        /\ UNCHANGED <<orders, notifs>>
     \/ /\ RatingValid(rating)
        /\ OwnOrder(u, id)
        /\ orders[id].canRate /\ orders[id].status = "delivered"
        /\ AlreadyRated(orders[id])
        /\ Reply("rateOrder", 400, "Order has already been rated", 0)
        /\ UNCHANGED <<orders, notifs>>
     \/ /\ RatingValid(rating)
        /\ OwnOrder(u, id)
        /\ orders[id].canRate /\ orders[id].status = "delivered"
        /\ ~AlreadyRated(orders[id])
        /\ orders' = OrderSave(orders, id, [orders[id] EXCEPT !.rating = rating,
                                                              !.review = review,
                                                              !.canRate = FALSE])
        /\ notifs' = Append(notifs, NewNotification(u, "rating", "Thank you for your rating!", id))
        /\ Reply("rateOrder", 200, "Order rated successfully", id)

\* PUT /api/orders/admin/:id/status: the route validates body.status against the
\* status enum; the handler is not part of the sources.  It is taken to store
\* the status and to leave the three flags in any combination (the flags are
\* independent of the status).
updateOrderStatus(u, id, status, flags) ==
  /\ Authenticated(u)
  /\ statusUpdates < MaxStatusUpdates
  /\ id \in OrderIds
  /\ status \in OrderStatuses
  /\ orders' = [orders EXCEPT ![id].status = status,
                              ![id].canCancel = flags.canCancel,
                              ![id].canReorder = flags.canReorder,
                              ![id].canRate = flags.canRate]
  /\ statusUpdates' = statusUpdates + 1
  /\ Reply("updateOrderStatus", 200, "Order status updated successfully", id)
  /\ UNCHANGED <<users, addrs, products, txns, notifs, placed, touched, catalogWrites, inflight>>

-----------------------------------------------------------------------------
(* Product routes: PUT /api/products/:id and DELETE /api/products/:id.  The  *)
(* routes are public; their handlers are not part of the sources.            *)

\* what one update request changes on a product
ProductChanges == {"price", "name", "image", "hide", "soldOut", "stock"}

\* the product after an update request
Changed(product, change) ==
  CASE change = "price"   -> [product EXCEPT !.price = 300]
    [] change = "name"    -> [product EXCEPT !.name = "Basmati"]
    [] change = "image"   -> [product EXCEPT !.image = "new.png"]
    [] change = "hide"    -> [product EXCEPT !.isActive = FALSE]
    [] change = "soldOut" -> [product EXCEPT !.inStock = FALSE]
    [] change = "stock"   -> [product EXCEPT !.stockCount = 1]

\* PUT /api/products/:id: taken to store the fields of the body on the product
updateProduct(id, change) ==
  /\ catalogWrites < MaxCatalogWrites
  /\ catalogWrites' = catalogWrites + 1
  /\ UNCHANGED <<users, addrs, orders, txns, notifs, placed, statusUpdates, inflight>>
  /\ IF ProductFound(products, id)
     THEN /\ products' = [products EXCEPT ![id] = Changed(@, change)]
          /\ touched' = Touch({id}, 0)
          /\ Reply("updateProduct", 200, "Product updated successfully", 0)
     ELSE /\ UNCHANGED <<products, touched>>
          /\ Reply("updateProduct", 404, "Product not found", 0)

\* DELETE /api/products/:id: taken to remove the product from the collection
deleteProduct(id) ==
  /\ catalogWrites < MaxCatalogWrites
  /\ catalogWrites' = catalogWrites + 1
  /\ UNCHANGED <<users, addrs, orders, txns, notifs, placed, statusUpdates, inflight>>
  /\ IF ProductFound(products, id)
     THEN /\ products' = [products EXCEPT ![id].deleted = TRUE]
          /\ touched' = Touch({id}, 0)
          /\ Reply("deleteProduct", 200, "Product deleted successfully", 0)
     ELSE /\ UNCHANGED <<products, touched>>
          /\ Reply("deleteProduct", 404, "Product not found", 0)

-----------------------------------------------------------------------------
(* Order workflow, from a store with two signed-up users and a catalog *)

\* a catalog as createProduct and the product routes can leave it: two
\* products, the first with the given visibility flags
Catalog(isActive, inStock) ==
  <<[name |-> "Rice", price |-> 225, image |-> "rice.png", stockCount |-> MaxStock,
     totalSold |-> 0, isActive |-> isActive, inStock |-> inStock, deleted |-> FALSE],
    [name |-> "Milk", price |-> 250, image |-> "milk.png", stockCount |-> MaxStock,
     totalSold |-> 0, isActive |-> TRUE, inStock |-> TRUE, deleted |-> FALSE]>>

\* the store after two signups (with an address renamed), holding one of `catalogs`
InitWith(catalogs) ==
  /\ users = <<NewUser("asha@x.io", "9000000001"), NewUser("ravi@x.io", "9000000002")>>
  /\ addrs = <<NewAddress(1, "Asha", TRUE), NewAddress(2, "Ravi", TRUE)>>
  /\ products \in catalogs
  /\ orders = <<>>
  /\ txns = <<>>
  /\ notifs = <<>>
  /\ placed = <<>>
  /\ touched = <<>>
  /\ statusUpdates = 0
  /\ catalogWrites = 0
  /\ inflight = <<>>
  /\ resp = NoResp

Init == InitWith({Catalog(TRUE, TRUE)})

InitPlace == InitWith({Catalog(TRUE, TRUE), Catalog(FALSE, TRUE), Catalog(TRUE, FALSE)})

Item(p, q) == [productId |-> p, quantity |-> q]

\* request items that name a product of the catalog
RequestItems == [productId : 1..2, quantity : 1..MaxQty]

\* every list of at most n such items
ItemLists(n) == UNION {[1..k -> RequestItems] : k \in 0..n}

\* item lists with a product id that is in no catalog (3), and with a quantity
\* that validation refuses (0)
OddLists ==
  {<<Item(3, 1)>>, <<Item(3, 1), Item(1, 1)>>, <<Item(2, 1), Item(3, 1)>>,
   <<Item(1, 0)>>, <<Item(2, 1), Item(1, 0)>>}

\* createOrder requests of the life-cycle specification: user, items, address, payment method
CreateRequests ==
  {[u |-> 1, items |-> <<Item(1, 1)>>, a |-> 1, pm |-> "upi"],
   [u |-> 2, items |-> <<Item(2, 1)>>, a |-> 1, pm |-> "cod"],
   [u |-> 1, items |-> <<>>, a |-> 1, pm |-> "cod"]}

\* createOrder requests of the placement specification: every item list
PlaceRequests ==
  [u : {1}, items : ItemLists(MaxItems) \cup OddLists, a : {1}, pm : {"cod"}]
    \cup [u : ObjectIds, items : {<<Item(2, 1)>>, <<Item(3, 1)>>}, a : {2}, pm : {"upi"}]

RatingBodies ==
  {[rating |-> MinRating - 1, review |-> ""],
   [rating |-> MinRating, review |-> "Stale"],
   [rating |-> MaxRating, review |-> "Fresh"]}

\* statuses the status route is asked to store
StatusInputs == {"out_for_delivery", "delivered", "cancelled"}

Flags == [canCancel : BOOLEAN, canReorder : BOOLEAN, canRate : BOOLEAN]

Next ==
  \/ \E r \in CreateRequests : createOrder(r.u, r.items, r.a, r.pm)
  \/ \E u \in ObjectIds, id \in 1..MaxOrders : cancelOrder(u, id)
  \/ \E u \in ObjectIds, id \in 1..MaxOrders, body \in RatingBodies :
       rateOrder(u, id, body.rating, body.review)
  \/ \E u \in ObjectIds, id \in 1..MaxOrders, status \in StatusInputs, flags \in Flags :
       updateOrderStatus(u, id, status, flags)

\* an order from placement to delivery, cancellation and rating
Spec == Init /\ [][Next]_vars

NextPlace ==
  \/ \E r \in PlaceRequests : createOrder(r.u, r.items, r.a, r.pm)
  \/ \E u \in ObjectIds, id \in 1..MaxOrders : cancelOrder(u, id)
  \/ \E u \in ObjectIds, id \in 1..MaxOrders : reorderOrder(u, id)

\* placing, cancelling and re-placing orders, over every item list
SpecPlace == InitPlace /\ [][NextPlace]_vars

\* a request item as the client sends it, with the price the client claims
PricedItem(p, q, price) == [productId |-> p, quantity |-> q, price |-> price]

\* createOrder requests of user 1 whose items carry a client price: below and
\* above the catalog price
CatalogRequests ==
  {[u |-> 1, items |-> <<PricedItem(1, 2, 1), PricedItem(2, 1, 999)>>, a |-> 1, pm |-> "cod"],
   [u |-> 1, items |-> <<PricedItem(1, 1, 0)>>, a |-> 1, pm |-> "upi"]}

\* updateAddress bodies that rename the address
RenameBodies == [name : {"Office"}, isDefault : {"absent"}, userId : {0}]

\* the status-route inputs that deliver an order
DeliveredFlags == {[canCancel |-> FALSE, canReorder |-> TRUE, canRate |-> TRUE]}

\* the requests are user 1's, on user 1's address and on the first product
NextCatalog ==
  \/ \E r \in CatalogRequests : createOrder(r.u, r.items, r.a, r.pm)
  \/ \E id \in 1..MaxOrders : cancelOrder(1, id)
  \/ \E id \in 1..MaxOrders : reorderOrder(1, id)
  \/ \E id \in 1..MaxOrders : rateOrder(1, id, MaxRating, "Fresh")
  \/ \E id \in 1..MaxOrders, flags \in DeliveredFlags :
       updateOrderStatus(1, id, "delivered", flags)
  \/ \E change \in ProductChanges : updateProduct(1, change)
  \/ deleteProduct(1)
  \/ \E body \in RenameBodies : updateAddress(1, 1, body)
  \/ deleteAddress(1, 1)

\* orders while the catalog and the address book change under them
SpecCatalog == Init /\ [][NextCatalog]_vars

\* createOrder requests of the two users, each to the user's own address
OwnerRequests ==
  {[u |-> 1, items |-> <<Item(1, 1)>>, a |-> 1, pm |-> "cod"],
   [u |-> 2, items |-> <<Item(2, 1)>>, a |-> 2, pm |-> "upi"]}

NextOwner ==
  \/ \E r \in OwnerRequests : createOrder(r.u, r.items, r.a, r.pm)
  \/ \E u \in ObjectIds, id \in 1..MaxOrders : getOrder(u, id)
  \/ \E u \in ObjectIds, id \in 1..MaxOrders : cancelOrder(u, id)
  \/ \E u \in ObjectIds, id \in 1..MaxOrders : reorderOrder(u, id)
  \/ \E u \in ObjectIds, id \in 1..MaxOrders, body \in RatingBodies :
       rateOrder(u, id, body.rating, body.review)
  \/ \E u \in ObjectIds, id \in 1..MaxOrders, flags \in DeliveredFlags :
       updateOrderStatus(u, id, "delivered", flags)
  \/ \E u \in ObjectIds, id \in 1..MaxAddrs : deleteAddress(u, id)
  \/ \E u \in ObjectIds, id \in 1..MaxAddrs : setDefaultAddress(u, id)

\* two users, each naming the other's orders and addresses as well as their own
SpecOwner == Init /\ [][NextOwner]_vars

NextFlags ==
  \/ \E r \in OwnerRequests : createOrder(r.u, r.items, r.a, r.pm)
  \/ \E u \in ObjectIds, id \in 1..MaxOrders : reorderOrder(u, id)
  \/ \E u \in ObjectIds, id \in 1..MaxOrders : cancelOrder(u, id)
  \/ \E u \in ObjectIds, id \in 1..MaxOrders, body \in RatingBodies :
       rateOrder(u, id, body.rating, body.review)

\* the four order requests a user can send, and no status route
SpecFlags == Init /\ [][NextFlags]_vars

-----------------------------------------------------------------------------
(* setDefaultAddress, database call by database call.  A request is         *)
(* suspended at every await, and other requests run in between.              *)

Requests == 1..Len(inflight)

\* requests that have started and not yet answered
Running == {p \in Requests : inflight[p].pc # "done"}

\* the number a request gets when it answers: 1 for the first to answer
FinishedNext == Cardinality(Requests \ Running) + 1

\* Address.updateMany({ userId, _id: { $ne: id } }, { $set: { isDefault: false } })
UnsetOthers(as, u, id) ==
  [a \in 1..Len(as) |->
     IF ~as[a].deleted /\ as[a].userId = u /\ a # id
     THEN [as[a] EXCEPT !.isDefault = FALSE]
     ELSE as[a]]

\* a save that writes nothing
SavedNothing(as, id, wasDefault) == as

\* the update address.save() sends after address.isDefault = true: the
\* modified paths only, so nothing when the loaded document had the flag set
SavedDefault(as, id, wasDefault) ==
  IF wasDefault THEN as ELSE [as EXCEPT ![id].isDefault = TRUE]

\* Address.findOne({ _id: id, userId: req.user.id }): the request starts
defaultFind(u, id) ==
  /\ Authenticated(u)
  /\ Len(inflight) < MaxInflight
  /\ UNCHANGED <<users, addrs, products, orders, txns, notifs, placed, touched,
                 statusUpdates, catalogWrites>>
  /\ IF OwnAddress(u, id)
     THEN /\ inflight' = Append(inflight,
                                [pc |-> "unset", u |-> u, id |-> id,
                                 wasDefault |-> addrs[id].isDefault,
                                 overlapped |-> Running # {}, finished |-> 0])
          /\ UNCHANGED resp
     ELSE /\ Reply("setDefaultAddress", 404, "Address not found", 0)
          /\ UNCHANGED inflight

\* await Address.updateMany(...) of the handler
defaultUnset(p) ==
  /\ p \in Requests /\ inflight[p].pc = "unset"
  /\ addrs' = UnsetOthers(addrs, inflight[p].u, inflight[p].id)
  /\ inflight' = [inflight EXCEPT ![p].pc = "hook"]
  /\ UNCHANGED <<users, products, orders, txns, notifs, placed, touched,
                 statusUpdates, catalogWrites, resp>>

\* address.isDefault = true; address.save(): the pre-save hook's updateMany
defaultHook(p) ==
  /\ p \in Requests /\ inflight[p].pc = "hook"
  /\ addrs' = PreSaveAddress(addrs, inflight[p].id,
                             [userId |-> inflight[p].u, isDefault |-> TRUE])
  /\ inflight' = [inflight EXCEPT ![p].pc = "write"]
  /\ UNCHANGED <<users, products, orders, txns, notifs, placed, touched,
                 statusUpdates, catalogWrites, resp>>

\* address.save(): the document update, then the 200 reply
defaultWrite(p) ==
  /\ p \in Requests /\ inflight[p].pc = "write"
  /\ addrs' = SavedDefault(addrs, inflight[p].id, inflight[p].wasDefault)
  /\ inflight' = [inflight EXCEPT ![p].pc = "done", ![p].finished = FinishedNext]
  /\ Reply("setDefaultAddress", 200, "Default address updated successfully", 0)
  /\ UNCHANGED <<users, products, orders, txns, notifs, placed, touched,
                 statusUpdates, catalogWrites>>

\* the store after two signups and two more addresses of the first user
InitDefault ==
  /\ users = <<NewUser("asha@x.io", "9000000001"), NewUser("ravi@x.io", "9000000002")>>
  /\ addrs = <<NewAddress(1, "Asha", TRUE), NewAddress(2, "Ravi", TRUE),
               NewAddress(1, "Office", FALSE), NewAddress(1, "Shop", FALSE)>>
  /\ products = <<>>
  /\ orders = <<>>
  /\ txns = <<>>
  /\ notifs = <<>>
  /\ placed = <<>>
  /\ touched = <<>>
  /\ statusUpdates = 0
  /\ catalogWrites = 0
  /\ inflight = <<>>
  /\ resp = NoResp

\* address ids a request can name: the four addresses and one that does not exist
DefaultTargets == 1..5

NextDefault ==
  \/ \E u \in ObjectIds, id \in DefaultTargets : defaultFind(u, id)
  \/ \E p \in 1..MaxInflight : defaultUnset(p)
  \/ \E p \in 1..MaxInflight : defaultHook(p)
  \/ \E p \in 1..MaxInflight : defaultWrite(p)

\* setDefaultAddress requests that overlap
SpecDefault == InitDefault /\ [][NextDefault]_vars

-----------------------------------------------------------------------------
(* createOrder, database call by database call: the reads of the item loop,  *)
(* Order.create, then the side-effect writes, any of which may fail.         *)

\* the stock update that applies only while the stock covers the quantity
StockTakenIfEnough(ps, item) ==
  IF ProductFound(ps, item.productId) /\ ps[item.productId].stockCount >= item.quantity
  THEN IncStock(ps, <<item>>, 1)
  ELSE ps

\* Product.findByIdAndUpdate(item.productId, { $inc: { stockCount: -q, totalSold: q } })
StockTaken(ps, item) == IncStock(ps, <<item>>, 1)

\* an order withdrawn when a later write fails
RolledBack(os, id) == [os EXCEPT ![id].status = "cancelled"]

\* catch (error) { next(error) }: the order collection after a write of the
\* request that created order id has failed
Abandoned(os, id) == os

\* the error handler's reply to an exception a handler passes to next()
ErrorReply(op) == Reply(op, 500, "Server Error", 0)

\* the side-effect writes of createOrder, in their order
SideEffects == <<"stock", "user", "ledger", "notify">>

SideEffectSet == {SideEffects[i] : i \in 1..Len(SideEffects)}

\* the notification title and the reply message of a placed order
PlacedTitle(op) ==
  IF op = "reorderOrder" THEN "Reorder Placed Successfully!" ELSE "Order Placed Successfully!"

PlacedMessage(op) ==
  IF op = "reorderOrder" THEN "Reorder placed successfully" ELSE "Order placed successfully"

\* validation and Address.findOne: the request starts
raceStart(u, items, deliveryAddressId, paymentMethod) ==
  /\ Authenticated(u)
  /\ Len(inflight) < MaxInflight
  /\ UNCHANGED <<users, addrs, products, orders, txns, notifs, placed, touched,
                 statusUpdates, catalogWrites>>
  /\ IF ~CreateOrderValid(items, paymentMethod)
     THEN /\ Reply("createOrder", 400, "Validation failed", 0)
          /\ UNCHANGED inflight
     ELSE IF ~OwnAddress(u, deliveryAddressId)
     THEN /\ Reply("createOrder", 400, "Invalid delivery address", 0)
          /\ UNCHANGED inflight
     ELSE /\ inflight' = Append(inflight,
                                [pc |-> "check", u |-> u, items |-> items,
                                 deliveryAddress |-> AddressSnapshot(addrs[deliveryAddressId]),
                                 paymentMethod |-> paymentMethod,
                                 orderItems |-> <<>>, reads |-> <<>>,
                                 orderId |-> 0, written |-> 0,
                                 overlapped |-> Running # {},
                                 outcome |-> "", failedAt |-> "",
                                 op |-> "createOrder", checked |-> 0, count |-> 0])
          /\ UNCHANGED resp

\* one pass of the item loop: Product.findById and the two checks
raceCheck(p) ==
  /\ p \in Requests /\ inflight[p].pc = "check"
  /\ UNCHANGED <<users, addrs, products, orders, txns, notifs, placed, touched,
                 statusUpdates, catalogWrites>>
  /\ LET e == inflight[p]
         item == e.items[Len(e.orderItems) + 1]
         verdict == ItemCheck(products, item)
     IN IF verdict = "unavailable"
        THEN /\ ReplyAbout("createOrder", 400, "Product is not available",
                           NameOrUnknown(products, item.productId))
             /\ inflight' = [inflight EXCEPT ![p].pc = "done", ![p].outcome = "rejected"]
        ELSE IF verdict = "insufficient"
        THEN /\ ReplyAbout("createOrder", 400, "Insufficient stock",
                           products[item.productId].name)
             /\ inflight' = [inflight EXCEPT ![p].pc = "done", ![p].outcome = "rejected"]
        ELSE /\ inflight' =
                  [inflight EXCEPT
                     ![p].orderItems = Append(@, OrderItem(products, item)),
                     ![p].reads = Append(@, products[item.productId].stockCount),
                     ![p].pc = IF Len(e.orderItems) + 1 = Len(e.items) THEN "create" ELSE "check"]
             /\ UNCHANGED resp

\* Order.create, first half: the pre-save hook counts the stored orders
raceCount(p) ==
  /\ p \in Requests /\ inflight[p].pc = "create"
  /\ inflight' = [inflight EXCEPT ![p].pc = "insert", ![p].count = Len(orders)]
  /\ UNCHANGED <<users, addrs, products, orders, txns, notifs, placed, touched,
                 statusUpdates, catalogWrites, resp>>

\* Order.create, second half: the insert with orderNumber 'HRA' + (count + 1),
\* which the unique index refuses when a stored order has that number
raceInsert(p) ==
  /\ p \in Requests /\ inflight[p].pc = "insert"
  /\ UNCHANGED <<users, addrs, products, txns, notifs, placed, touched,
                 statusUpdates, catalogWrites>>
  /\ LET e == inflight[p]
         totalAmount == TotalAmount(e.orderItems)
         deliveryFee == DeliveryFeeFor(totalAmount)
     IN IF ~OrderNumberFree(orders, OrderNumber(e.count))
        THEN /\ inflight' = [inflight EXCEPT ![p].pc = "done", ![p].outcome = "duplicate"]
             /\ ErrorReply(e.op)
             /\ UNCHANGED orders
        ELSE /\ Len(orders) < MaxOrders
             /\ orders' = OrderInsert(orders,
                                      NewOrder(e.u, e.orderItems, totalAmount, deliveryFee,
                                               totalAmount + deliveryFee - 0,
                                               e.deliveryAddress, e.paymentMethod),
                                      e.count)
             /\ inflight' = [inflight EXCEPT ![p].pc = "stock", ![p].orderId = Len(orders) + 1]
             /\ UNCHANGED resp

\* one pass of the stock loop
raceStock(p) ==
  /\ p \in Requests /\ inflight[p].pc = "stock"
  /\ LET e == inflight[p]
     IN /\ products' = StockTaken(products, e.orderItems[e.written + 1])
        /\ inflight' = [inflight EXCEPT
                          ![p].written = @ + 1,
                          ![p].pc = IF e.written + 1 = Len(e.orderItems) THEN "user" ELSE "stock"]
  /\ UNCHANGED <<users, addrs, orders, txns, notifs, placed, touched,
                 statusUpdates, catalogWrites, resp>>

\* User.findByIdAndUpdate(userId, { $inc: { totalOrders: 1, totalSpent: finalAmount } })
raceUser(p) ==
  /\ p \in Requests /\ inflight[p].pc = "user"
  /\ LET e == inflight[p]
     IN users' = [users EXCEPT ![e.u].totalOrders = @ + 1,
                               ![e.u].totalSpent = @ + orders[e.orderId].finalAmount]
  /\ inflight' = [inflight EXCEPT ![p].pc = "ledger"]
  /\ UNCHANGED <<addrs, products, orders, txns, notifs, placed, touched,
                 statusUpdates, catalogWrites, resp>>

\* Transaction.create
raceLedger(p) ==
  /\ p \in Requests /\ inflight[p].pc = "ledger"
  /\ LET e == inflight[p]
     IN txns' = Append(txns, NewTransaction(e.u, e.orderId, orders[e.orderId],
                                            orders[e.orderId].finalAmount, e.paymentMethod))
  /\ inflight' = [inflight EXCEPT ![p].pc = "notify"]
  /\ UNCHANGED <<users, addrs, products, orders, notifs, placed, touched,
                 statusUpdates, catalogWrites, resp>>

\* Notification.create, then the 201 reply
raceNotify(p) ==
  /\ p \in Requests /\ inflight[p].pc = "notify"
  /\ LET e == inflight[p]
     IN /\ notifs' = Append(notifs, NewNotification(e.u, "order", PlacedTitle(e.op), e.orderId))
        /\ Reply(e.op, 201, PlacedMessage(e.op), e.orderId)
  /\ inflight' = [inflight EXCEPT ![p].pc = "done", ![p].outcome = "placed"]
  /\ UNCHANGED <<users, addrs, products, orders, txns, placed, touched,
                 statusUpdates, catalogWrites>>

\* the write the request is about to make throws: the catch block hands the
\* error on, and nothing the request wrote before is undone
raceFail(p) ==
  /\ p \in Requests /\ inflight[p].pc \in SideEffectSet
  /\ orders' = Abandoned(orders, inflight[p].orderId)
  /\ inflight' = [inflight EXCEPT ![p].pc = "done", ![p].outcome = "error",
                                  ![p].failedAt = inflight[p].pc]
  /\ ErrorReply(inflight[p].op)
  /\ UNCHANGED <<users, addrs, products, txns, notifs, placed, touched,
                 statusUpdates, catalogWrites>>

\* createOrder requests for the same product whose quantities together exceed
\* the stock, and one with two items
RaceRequests ==
  {[u |-> 1, items |-> <<Item(1, 2)>>, a |-> 1, pm |-> "cod"],
   [u |-> 2, items |-> <<Item(1, 1)>>, a |-> 2, pm |-> "upi"],
   [u |-> 2, items |-> <<Item(2, 1), Item(1, 2)>>, a |-> 2, pm |-> "cod"],
   [u |-> 1, items |-> <<Item(1, 1)>>, a |-> 2, pm |-> "cod"]}

NextRace ==
  \/ \E r \in RaceRequests : raceStart(r.u, r.items, r.a, r.pm)
  \/ \E p \in 1..MaxInflight : raceCheck(p)
  \/ \E p \in 1..MaxInflight : raceCount(p)
  \/ \E p \in 1..MaxInflight : raceInsert(p)
  \/ \E p \in 1..MaxInflight : raceStock(p)
  \/ \E p \in 1..MaxInflight : raceUser(p)
  \/ \E p \in 1..MaxInflight : raceLedger(p)
  \/ \E p \in 1..MaxInflight : raceNotify(p)
  \/ \E p \in 1..MaxInflight : raceFail(p)

\* createOrder requests that overlap and whose writes may fail
SpecRace == Init /\ [][NextRace]_vars

-----------------------------------------------------------------------------
(* reorderOrder, database call by database call; from Order.create on it     *)
(* takes the steps of createOrder.                                           *)

\* Order.findOne({ _id: id, userId }) and the two refusals
reorderFind(u, id) ==
  /\ Authenticated(u)
  /\ Len(inflight) < MaxInflight
  /\ UNCHANGED <<users, addrs, products, orders, txns, notifs, placed, touched,
                 statusUpdates, catalogWrites>>
  /\ IF ~OwnOrder(u, id)
     THEN /\ Reply("reorderOrder", 404, "Original order not found", 0)
          /\ UNCHANGED inflight
     ELSE IF ~orders[id].canReorder
     THEN /\ Reply("reorderOrder", 400, "This order cannot be reordered", 0)
          /\ UNCHANGED inflight
     ELSE /\ inflight' = Append(inflight,
                                [pc |-> "recheck", u |-> u, items |-> orders[id].items,
                                 deliveryAddress |-> orders[id].deliveryAddress,
                                 paymentMethod |-> orders[id].paymentMethod,
                                 orderItems |-> <<>>, reads |-> <<>>,
                                 orderId |-> 0, written |-> 0,
                                 overlapped |-> Running # {},
                                 outcome |-> "", failedAt |-> "",
                                 op |-> "reorderOrder", checked |-> 0, count |-> 0])
          /\ UNCHANGED resp

\* one pass of the loop over originalOrder.items: an item that fails a check
\* is left out; after the last item an empty list is refused
reorderCheck(p) ==
  /\ p \in Requests /\ inflight[p].pc = "recheck"
  /\ UNCHANGED <<users, addrs, products, orders, txns, notifs, placed, touched,
                 statusUpdates, catalogWrites>>
  /\ LET e == inflight[p]
         item == e.items[e.checked + 1]
         passes == ItemCheck(products, item) = "ok"
         items == IF passes THEN Append(e.orderItems, OrderItem(products, item))
                  ELSE e.orderItems
         last == e.checked + 1 = Len(e.items)
     IN IF last /\ items = <<>>
        THEN /\ Reply("reorderOrder", 400,
                      "No products from the original order are currently available", 0)
             /\ inflight' = [inflight EXCEPT ![p].pc = "done", ![p].outcome = "rejected",
                                             ![p].checked = @ + 1]
        ELSE /\ inflight' =
                  [inflight EXCEPT
                     ![p].orderItems = items,
                     ![p].reads = IF passes
                                  THEN Append(@, products[item.productId].stockCount)
                                  ELSE @,
                     ![p].checked = @ + 1,
                     ![p].pc = IF last THEN "create" ELSE "recheck"]
             /\ UNCHANGED resp

\* createOrder requests of user 1, of one item and of two
NumberRequests ==
  {[u |-> 1, items |-> <<Item(1, 1)>>, a |-> 1, pm |-> "cod"],
   [u |-> 1, items |-> <<Item(2, 1), Item(1, 1)>>, a |-> 1, pm |-> "upi"]}

NextNumber ==
  \/ \E r \in OwnerRequests : createOrder(r.u, r.items, r.a, r.pm)
  \/ \E u \in ObjectIds, id \in 1..MaxOrders : cancelOrder(u, id)
  \/ \E r \in NumberRequests : raceStart(r.u, r.items, r.a, r.pm)
  \/ \E p \in 1..MaxInflight : raceCheck(p)
  \/ \E u \in ObjectIds, id \in 1..MaxOrders : reorderFind(u, id)
  \/ \E p \in 1..MaxInflight : reorderCheck(p)
  \/ \E p \in 1..MaxInflight : raceCount(p)
  \/ \E p \in 1..MaxInflight : raceInsert(p)
  \/ \E p \in 1..MaxInflight : raceStock(p)
  \/ \E p \in 1..MaxInflight : raceUser(p)
  \/ \E p \in 1..MaxInflight : raceLedger(p)
  \/ \E p \in 1..MaxInflight : raceNotify(p)

\* createOrder and reorderOrder requests that overlap, after orders placed and
\* cancelled one request at a time
SpecNumber == Init /\ [][NextNumber]_vars

-----------------------------------------------------------------------------
(* cancelOrder, database call by database call.  The handler holds the       *)
(* order document it read; order.save() writes the paths it modified.        *)

\* the writes of cancelOrder, in their order
CancelWrites == <<"save", "stock", "user", "ledger", "notify">>

CancelWriteSet == {CancelWrites[i] : i \in 1..Len(CancelWrites)}

\* Order.findOne({ _id: id, userId }) and the two refusals
cancelFind(u, id) ==
  /\ Authenticated(u)
  /\ Len(inflight) < MaxInflight
  /\ UNCHANGED <<users, addrs, products, orders, txns, notifs, placed, touched,
                 statusUpdates, catalogWrites>>
  /\ IF ~OwnOrder(u, id)
     THEN /\ Reply("cancelOrder", 404, "Order not found", 0)
          /\ UNCHANGED inflight
     ELSE IF CancelBlocked(orders[id])
     THEN /\ Reply("cancelOrder", 400, "This order cannot be cancelled", 0)
          /\ UNCHANGED inflight
     ELSE /\ inflight' = Append(inflight,
                                [pc |-> "save", u |-> u, id |-> id,
                                 order |-> Cancelled(orders[id]),
                                 written |-> 0, applied |-> {},
                                 overlapped |-> Running # {},
                                 outcome |-> "", failedAt |-> ""])
          /\ UNCHANGED resp

\* order.save(): status, canCancel and canReorder are set and the tracking
\* step is pushed onto the stored array
cancelSave(p) ==
  /\ p \in Requests /\ inflight[p].pc = "save"
  /\ LET e == inflight[p]
     IN orders' = OrderSave(orders, e.id, Cancelled(orders[e.id]))
  /\ inflight' = [inflight EXCEPT ![p].pc = "stock", ![p].applied = @ \cup {"save"}]
  /\ UNCHANGED <<users, addrs, products, txns, notifs, placed, touched,
                 statusUpdates, catalogWrites, resp>>

\* one pass of the loop over order.items
cancelStock(p) ==
  /\ p \in Requests /\ inflight[p].pc = "stock"
  /\ LET e == inflight[p]
     IN /\ products' = RestoreStock(products, <<e.order.items[e.written + 1]>>)
        /\ inflight' = [inflight EXCEPT
                          ![p].written = @ + 1,
                          ![p].applied = @ \cup {"stock"},
                          ![p].pc = IF e.written + 1 = Len(e.order.items) THEN "user" ELSE "stock"]
  /\ UNCHANGED <<users, addrs, orders, txns, notifs, placed, touched,
                 statusUpdates, catalogWrites, resp>>

\* User.findByIdAndUpdate(userId, { $inc: { totalOrders: -1, totalSpent: -order.finalAmount } })
cancelUser(p) ==
  /\ p \in Requests /\ inflight[p].pc = "user"
  /\ LET e == inflight[p]
     IN users' = [users EXCEPT ![e.u].totalOrders = @ - 1,
                               ![e.u].totalSpent = @ - e.order.finalAmount]
  /\ inflight' = [inflight EXCEPT ![p].pc = "ledger", ![p].applied = @ \cup {"user"}]
  /\ UNCHANGED <<addrs, products, orders, txns, notifs, placed, touched,
                 statusUpdates, catalogWrites, resp>>

\* Transaction.findOneAndUpdate({ orderId, userId }, { status: 'cancelled' })
cancelLedger(p) ==
  /\ p \in Requests /\ inflight[p].pc = "ledger"
  /\ LET e == inflight[p]
     IN txns' \in CancelTransaction(txns, e.id, e.u)
  /\ inflight' = [inflight EXCEPT ![p].pc = "notify", ![p].applied = @ \cup {"ledger"}]
  /\ UNCHANGED <<users, addrs, products, orders, notifs, placed, touched,
                 statusUpdates, catalogWrites, resp>>

\* Notification.create, then the 200 reply
cancelNotify(p) ==
  /\ p \in Requests /\ inflight[p].pc = "notify"
  /\ LET e == inflight[p]
     IN /\ notifs' = Append(notifs, NewNotification(e.u, "order", "Order Cancelled", e.id))
        /\ Reply("cancelOrder", 200, "Order cancelled successfully", e.id)
  /\ inflight' = [inflight EXCEPT ![p].pc = "done", ![p].outcome = "cancelled",
                                  ![p].applied = @ \cup {"notify"}]
  /\ UNCHANGED <<users, addrs, products, orders, txns, placed, touched,
                 statusUpdates, catalogWrites>>

\* the write the request is about to make throws: catch (error) { next(error) }
cancelFail(p) ==
  /\ p \in Requests /\ inflight[p].pc \in CancelWriteSet
  /\ inflight' = [inflight EXCEPT ![p].pc = "done", ![p].outcome = "error",
                                  ![p].failedAt = inflight[p].pc]
  /\ ErrorReply("cancelOrder")
  /\ UNCHANGED <<users, addrs, products, orders, txns, notifs, placed, touched,
                 statusUpdates, catalogWrites>>

NextCancel ==
  \/ \E r \in OwnerRequests : createOrder(r.u, r.items, r.a, r.pm)
  \/ \E u \in ObjectIds, id \in 1..MaxOrders : cancelFind(u, id)
  \/ \E p \in 1..MaxInflight : cancelSave(p)
  \/ \E p \in 1..MaxInflight : cancelStock(p)
  \/ \E p \in 1..MaxInflight : cancelUser(p)
  \/ \E p \in 1..MaxInflight : cancelLedger(p)
  \/ \E p \in 1..MaxInflight : cancelNotify(p)
  \/ \E p \in 1..MaxInflight : cancelFail(p)

\* orders placed one at a time and cancelOrder requests that overlap
SpecCancel == Init /\ [][NextCancel]_vars

-----------------------------------------------------------------------------
(* Requests with their credential: router.use(authMiddleware) in front of    *)
(* the user, address and order routes                                        *)

\* ids a token can carry: the two users and one that is not in the collection
TokenIds == 1..(Cardinality(Phones) + 1)

\* no token, a token jwt.verify rejects, an expired token, and a verifying
\* token of each id
Credentials ==
  {Token("none", 0)} \cup [kind : {"invalid", "expired"}, id : {1}]
    \cup [kind : {"valid"}, id : TokenIds]

\* the guard ends the request: its reply, and nothing else happens
denied(cred, op) ==
  /\ authMiddleware(cred) # Passed
  /\ Reply(op, authMiddleware(cred).status, authMiddleware(cred).msg, 0)
  /\ UNCHANGED <<users, addrs>>
  /\ UNCHANGED orderVars

\* the guard calls next(): the handler runs for the token's user
passed(cred) == authMiddleware(cred) = Passed

authDeactivateAccount(cred) ==
  \/ denied(cred, "deactivateAccount")
  \/ passed(cred) /\ deactivateAccount(cred.id)

authSetDefaultAddress(cred, id) ==
  \/ denied(cred, "setDefaultAddress")
  \/ passed(cred) /\ setDefaultAddress(cred.id, id)

authDeleteAddress(cred, id) ==
  \/ denied(cred, "deleteAddress")
  \/ passed(cred) /\ deleteAddress(cred.id, id)

authCreateOrder(cred, items, deliveryAddressId, paymentMethod) ==
  \/ denied(cred, "createOrder")
  \/ passed(cred) /\ createOrder(cred.id, items, deliveryAddressId, paymentMethod)

authCancelOrder(cred, id) ==
  \/ denied(cred, "cancelOrder")
  \/ passed(cred) /\ cancelOrder(cred.id, id)

\* createOrder bodies of the guarded requests: items, address, payment method
AuthBodies ==
  {[items |-> <<Item(1, 1)>>, a |-> 1, pm |-> "cod"],
   [items |-> <<Item(2, 1)>>, a |-> 2, pm |-> "upi"]}

NextAuth ==
  \/ \E cred \in Credentials : authDeactivateAccount(cred)
  \/ \E cred \in Credentials, id \in 1..MaxAddrs : authSetDefaultAddress(cred, id)
  \/ \E cred \in Credentials, id \in 1..MaxAddrs : authDeleteAddress(cred, id)
  \/ \E cred \in Credentials, b \in AuthBodies : authCreateOrder(cred, b.items, b.a, b.pm)
  \/ \E cred \in Credentials, id \in 1..MaxOrders : authCancelOrder(cred, id)

\* requests of any caller, with and without a credential the guard accepts
SpecAuth == Init /\ [][NextAuth]_vars

-----------------------------------------------------------------------------
(* Login.  The password a user signed up with is a fixed function of the    *)
(* user; comparePassword succeeds for that password only.                   *)

PasswordOf(u) == IF u = 1 THEN "asha123" ELSE "ravi123"

\* login bodies: each user's password, the empty password, and a phone the
\* validation refuses
LoginPasswords == {PasswordOf(u) : u \in ObjectIds} \cup {""}

\* body('phone').matches(/^\d{10}$/), body('password').notEmpty()
LoginValid(phone, password) == PhoneOk(phone) /\ password # ""

\* User.findOne({ phone })
UsersWithPhone(phone) == {u \in UserIds : users[u].phone = phone}

\* a login that never finds the account deactivated
DeactivatedNever(user) == FALSE

\* !user.isActive
Deactivated(user) == ~user.isActive

\* POST /api/auth/login.  user.save() writes lastLogin, which no other
\* operation reads.
login(phone, password) ==
  /\ UNCHANGED <<users, addrs>>
  /\ UNCHANGED orderVars
  /\ IF ~LoginValid(phone, password)
     THEN Reply("login", 400, "Validation failed", 0)
     ELSE IF \A u \in UsersWithPhone(phone) : PasswordOf(u) # password
     THEN Reply("login", 401, "Invalid phone number or password", 0)
     ELSE \E u \in UsersWithPhone(phone) :
            IF Deactivated(users[u])
            THEN Reply("login", 401, "Account is deactivated. Please contact support.", 0)
            ELSE Reply("login", 200, "Login successful", u)

NextLogin ==
  \/ \E cred \in Credentials : authDeactivateAccount(cred)
  \/ \E cred \in Credentials, id \in 1..MaxAddrs : authSetDefaultAddress(cred, id)
  \/ \E cred \in Credentials, id \in 1..MaxAddrs : authDeleteAddress(cred, id)
  \/ \E cred \in Credentials, b \in AuthBodies : authCreateOrder(cred, b.items, b.a, b.pm)
  \/ \E cred \in Credentials, id \in 1..MaxOrders : authCancelOrder(cred, id)
  \/ \E phone \in Phones \cup {BadPhone}, password \in LoginPasswords : login(phone, password)
  \/ \E name \in SignupNames, e \in RawEmails, phone \in Phones, n \in {MinPasswordLen} :
       signup(name, e, phone, n)

\* guarded requests, logins and signups of users who may have deactivated
\* their account
SpecLogin == Init /\ [][NextLogin]_vars

-----------------------------------------------------------------------------
(* Notifications.  A deleted document keeps its place in the sequence, with  *)
(* deleted = TRUE, so that ids stay positions.                               *)

NotifIds == {n \in 1..Len(notifs) : ~notifs[n].deleted}

\* a lookup by id alone
OwnNotificationAnyUser(u, id) == id \in NotifIds

\* Notification.findOne({ _id: id, userId })
OwnNotification(u, id) == id \in NotifIds /\ notifs[id].userId = u

NotificationTypes ==
  {"order", "delivery", "promotion", "rating", "wishlist", "cart", "system", "warning", "success"}

notifVars == <<users, addrs, products, orders, txns, placed, touched, statusUpdates,
               catalogWrites, inflight>>

\* POST /api/notifications
createNotification(u, type, title) ==
  /\ Authenticated(u)
  /\ UNCHANGED notifVars
  /\ IF type \notin NotificationTypes \/ title = ""
     THEN /\ Reply("createNotification", 400, "Validation failed", 0)
          /\ UNCHANGED notifs
     ELSE /\ Len(notifs) < MaxNotifs
          /\ notifs' = Append(notifs, NewNotification(u, type, title, 0))
          /\ Reply("createNotification", 201, "Notification created successfully",
                   Len(notifs) + 1)

\* PUT /api/notifications/:id/mark-as-read
markAsRead(u, id) ==
  /\ Authenticated(u)
  /\ UNCHANGED notifVars
  /\ IF ~OwnNotification(u, id)
     THEN /\ Reply("markAsRead", 404, "Notification not found", 0)
          /\ UNCHANGED notifs
     ELSE /\ notifs' = [notifs EXCEPT ![id].isRead = TRUE]
          /\ Reply("markAsRead", 200, "Notification marked as read", id)

\* Notification.updateMany({ userId, isRead: false }, { $set: { isRead: true } })
MarkedRead(ns, u) ==
  [n \in 1..Len(ns) |->
     IF ns[n].userId = u /\ ~ns[n].deleted /\ ~ns[n].isRead
     THEN [ns[n] EXCEPT !.isRead = TRUE]
     ELSE ns[n]]

\* PUT /api/notifications/mark-all-as-read
markAllAsRead(u) ==
  /\ Authenticated(u)
  /\ UNCHANGED notifVars
  /\ notifs' = MarkedRead(notifs, u)
  /\ Reply("markAllAsRead", 200, "notifications marked as read", 0)

\* DELETE /api/notifications/:id
deleteNotification(u, id) ==
  /\ Authenticated(u)
  /\ UNCHANGED notifVars
  /\ IF ~OwnNotification(u, id)
     THEN /\ Reply("deleteNotification", 404, "Notification not found", 0)
          /\ UNCHANGED notifs
     ELSE /\ notifs' = [notifs EXCEPT ![id].deleted = TRUE]
          /\ Reply("deleteNotification", 200, "Notification deleted successfully", 0)

\* DELETE /api/notifications/clear-all
clearAllNotifications(u) ==
  /\ Authenticated(u)
  /\ UNCHANGED notifVars
  /\ notifs' = [n \in 1..Len(notifs) |->
                  IF notifs[n].userId = u THEN [notifs[n] EXCEPT !.deleted = TRUE]
                  ELSE notifs[n]]
  /\ Reply("clearAllNotifications", 200, "notifications cleared", 0)

\* createNotification bodies: a type outside the enum and an empty title too
NotificationBodies == [type : {"promotion", "alert"}, title : {"Sale", ""}]

\* the ids a request can name: those of the notifications that can be stored
NotifTargets == 1..(MaxNotifs + MaxOrders)

\* the createOrder requests of user 1
NotifOrders == {r \in OwnerRequests : r.u = 1}

NextNotif ==
  \/ \E r \in NotifOrders : createOrder(r.u, r.items, r.a, r.pm)
  \/ \E u \in ObjectIds, b \in NotificationBodies : createNotification(u, b.type, b.title)
  \/ \E u \in ObjectIds, id \in NotifTargets : markAsRead(u, id)
  \/ \E u \in ObjectIds : markAllAsRead(u)
  \/ \E u \in ObjectIds, id \in NotifTargets : deleteNotification(u, id)
  \/ \E u \in ObjectIds : clearAllNotifications(u)

\* notifications of two users, written by the order workflow and by the
\* notification routes
SpecNotif == Init /\ [][NextNotif]_vars

-----------------------------------------------------------------------------
(* The product list.  Query parameters are strings: page and limit are       *)
(* digit strings (sequences of digits), absent when empty.                   *)

DefaultLimit == 10
DefaultPage == 1
MaxLimit == 100

\* the Category collection, and the category of each product of the catalog
Categories ==
  <<[id |-> "64b000000000000000000001", name |-> "Grains"],
    [id |-> "64b000000000000000000002", name |-> "Dairy"]>>

CategoryOf(p) == Categories[p].id

\* category.match(/^[0-9a-fA-F]{24}$/), on the category parameters below
IsObjectId(category) ==
  category \in {"64b000000000000000000001", "64b000000000000000000002",
                "64b0000000000000000000ff"}

\* new RegExp(category, 'i') tested against a category name, on the category
\* parameters below
NameMatches(category, name) ==
  <<category, name>> \in {<<"dairy", "Dairy">>, <<"ai", "Grains">>, <<"ai", "Dairy">>}

\* Category.findOne({ name: new RegExp(category, 'i') }): the documents it can return
CategoriesNamed(category) ==
  {c \in 1..Len(Categories) : NameMatches(category, Categories[c].name)}

\* parseInt(s, 10) of a digit string
RECURSIVE ParseInt(_)
ParseInt(ds) ==
  IF Len(ds) = 1 THEN ds[1]
  ELSE 10 * ParseInt(SubSeq(ds, 1, Len(ds) - 1)) + ds[Len(ds)]

\* const { limit = 10, page = 1 } = req.query, then parseInt
PageNum(page) == IF page = <<>> THEN DefaultPage ELSE ParseInt(page)

Min(a, b) == IF a <= b THEN a ELSE b

LimitNum(limit) == Min(IF limit = <<>> THEN DefaultLimit ELSE ParseInt(limit), MaxLimit)

\* Math.ceil(total / limitNum)
TotalPages(total, limitNum) == (total + limitNum - 1) \div limitNum

\* the products the filter { isActive: true, category } selects; categoryId
\* is "" when the request names no category
Filtered(ps, categoryId) ==
  {p \in 1..Len(ps) : /\ ~ps[p].deleted
                      /\ ps[p].isActive
                      /\ categoryId = "" \/ CategoryOf(p) = categoryId}

\* sort({ createdAt: -1 }): newest first
RECURSIVE NewestFirst(_)
NewestFirst(ids) ==
  IF ids = {} THEN <<>>
  ELSE LET newest == CHOOSE p \in ids : \A q \in ids : q <= p
       IN <<newest>> \o NewestFirst(ids \ {newest})

\* .skip(skip).limit(limitNum)
PageOf(sorted, skip, limitNum) == SubSeq(sorted, skip + 1, Min(skip + limitNum, Len(sorted)))

\* the 200 response of the query
Listing(ps, categoryId, page, limit) ==
  LET pageNum == PageNum(page)
      limitNum == LimitNum(limit)
      found == PageOf(NewestFirst(Filtered(ps, categoryId)), (pageNum - 1) * limitNum, limitNum)
      total == Cardinality(Filtered(ps, categoryId))
      totalPages == TotalPages(total, limitNum)
  IN [count |-> Len(found), total |-> total, totalPages |-> totalPages,
      currentPage |-> pageNum, hasNextPage |-> pageNum < totalPages,
      hasPrevPage |-> pageNum > 1, products |-> found]

\* the object literal of the early return for a category name that no
\* category matches
NothingFound(pageNum) ==
  [count |-> 0, total |-> 0, totalPages |-> 0, currentPage |-> pageNum,
   hasNextPage |-> FALSE, hasPrevPage |-> FALSE, products |-> <<>>]

\* GET /api/products.  The early return for an unmatched category name reads
\* pageNum, a const declared further down in the same block: the read throws
\* a ReferenceError before res.json is called, and the catch block passes it
\* to the error handler.
getProducts(category, page, limit) ==
  /\ UNCHANGED <<users, addrs>>
  /\ UNCHANGED orderVars
  /\ IF category = ""
     THEN ReplyAbout("getProducts", 200, "", Listing(products, "", page, limit))
     ELSE IF IsObjectId(category)
     THEN ReplyAbout("getProducts", 200, "", Listing(products, category, page, limit))
     ELSE IF CategoriesNamed(category) # {}
     THEN \E c \in CategoriesNamed(category) :
            ReplyAbout("getProducts", 200, "", Listing(products, Categories[c].id, page, limit))
     ELSE ErrorReply("getProducts")

\* category parameters: none, the id of a category, an id of no category, a
\* name in another case, a fragment of two names, and a name of no category
CategoryParams ==
  {"", "64b000000000000000000001", "64b0000000000000000000ff", "dairy", "ai", "nosuch"}

PageParams == {<<>>, <<1>>, <<2>>}

LimitParams == {<<>>, <<1>>, <<2>>, <<1, 0, 1>>}

NextBrowse ==
  \/ \E category \in CategoryParams, page \in PageParams, limit \in LimitParams :
       getProducts(category, page, limit)
  \/ \E id \in 1..2, change \in ProductChanges : updateProduct(id, change)
  \/ \E id \in 1..2 : deleteProduct(id)

\* product lists requested while the catalog changes
SpecBrowse == InitPlace /\ [][NextBrowse]_vars

-----------------------------------------------------------------------------
(* Properties of the order workflow: C3, C5, C9 and C10 under Spec, C2, C4,  *)
(* C6, C8 and C15 under SpecPlace                                            *)

OrderRequests == ObjectIds \X (1..MaxOrders)

\* the quantity of product p that a list of items asks for, summed over its items
RECURSIVE QuantityOf(_, _)
QuantityOf(items, p) ==
  IF items = <<>> THEN 0
  ELSE (IF Head(items).productId = p THEN Head(items).quantity ELSE 0)
         + QuantityOf(Tail(items), p)

\* C2: a successful createOrder lowers the stockCount of each ordered product
\* by exactly the quantity ordered and raises its totalSold by the same
\* amount; stockCount and totalSold of every product that is not in the order
\* (ordered quantity 0) stay as they were.
C2_StockTakenExactly ==
  [][resp'.status = 201 =>
       \A r \in PlaceRequests :
         createOrder(r.u, r.items, r.a, r.pm) =>
           \A p \in 1..Len(products) :
             /\ products'[p].stockCount = products[p].stockCount - QuantityOf(r.items, p)
             /\ products'[p].totalSold = products[p].totalSold + QuantityOf(r.items, p)]_vars

\* an order of two different products has just been placed
C2_Witness ==
  /\ resp.op = "createOrder" /\ resp.status = 201
  /\ Len(orders[resp.id].items) = 2
  /\ Cardinality(ProductsOf(orders[resp.id])) = 2

C4_CancelRestoresCounters ==
  [][resp'.status = 200 =>
       \A c \in OrderRequests :
         cancelOrder(c[1], c[2]) =>
           /\ \A p \in (1..Len(products)) \ touched[c[2]] :
                /\ products'[p].stockCount = placed[c[2]][p].stockCount
                /\ products'[p].totalSold = placed[c[2]][p].totalSold
           /\ ~orders'[c[2]].canCancel
           /\ orders'[c[2]].canReorder]_vars

\* a two-item order has just been cancelled with nothing written in between:
\* the whole catalog is back at its counters from before the order
C4_Witness ==
  /\ resp.op = "cancelOrder" /\ resp.status = 200
  /\ Len(orders[resp.id].items) = 2
  /\ Counters(products) = placed[resp.id]

\* what a rateOrder request of the order's owner has to do to order id
RateOutcome(id, body) ==
  IF /\ body.rating \in MinRating..MaxRating
     /\ orders[id].canRate
     /\ orders[id].status = "delivered"
     /\ orders[id].rating = 0
  THEN /\ resp'.status = 200
       /\ orders'[id].rating = body.rating
       /\ orders'[id].review = body.review
       /\ ~orders'[id].canRate
  ELSE /\ resp'.status = 400
       /\ orders' = orders

\* C5: rateOrder by the order's owner succeeds only when canRate is true, the
\* status is delivered and no rating is recorded; it then stores the rating
\* and review and sets canRate to false.  Every other attempt is answered 400
\* and leaves the order as it is, and no step changes a recorded rating or
\* its review: an order is rated at most once.
C5_RatedAtMostOnce ==
  [][/\ resp'.op = "rateOrder" =>
          \A c \in OrderRequests, body \in RatingBodies :
            (OwnOrder(c[1], c[2]) /\ rateOrder(c[1], c[2], body.rating, body.review)) =>
              RateOutcome(c[2], body)
     /\ \A o \in OrderIds :
          orders[o].rating # 0 =>
            /\ orders'[o].rating = orders[o].rating
            /\ orders'[o].review = orders[o].review]_vars

\* a rated order that is delivered and has canRate set again was rated a
\* second time, and the attempt was refused
C5_Witness ==
  /\ resp.op = "rateOrder" /\ resp.status = 400
  /\ resp.msg = "Order has already been rated"
  /\ \E o \in OrderIds :
       orders[o].rating # 0 /\ orders[o].canRate /\ orders[o].status = "delivered"

Unavailable(item) ==
  \/ item.productId \notin 1..Len(products)
  \/ ~products[item.productId].isActive
  \/ ~products[item.productId].inStock

Short(item) == ~Unavailable(item) /\ products[item.productId].stockCount < item.quantity

\* the caller's own address: Address.findOne({ _id, userId })
AddressOwned(r) == r.a \in 1..Len(addrs) /\ addrs[r.a].userId = r.u

\* the refusal of request r: a 400 that changes nothing and, when the address
\* is the caller's, names an item's product that is refused
Refused(r) ==
  /\ resp'.status = 400
  /\ UNCHANGED <<orders, txns, notifs, products, users>>
  /\ AddressOwned(r) =>
       \E i \in 1..Len(r.items) :
         \/ /\ Unavailable(r.items[i])
            /\ resp'.msg = "Product is not available"
            /\ resp'.about = IF r.items[i].productId \in 1..Len(products)
                             THEN products[r.items[i].productId].name
                             ELSE "Unknown"
         \/ /\ Short(r.items[i])
            /\ resp'.msg = "Insufficient stock"
            /\ resp'.about = products[r.items[i].productId].name

C9_CancelOnlyWhenAllowed ==
  [][resp'.op = "cancelOrder" =>
       \A c \in OrderRequests :
         (OwnOrder(c[1], c[2]) /\ cancelOrder(c[1], c[2])) =>
           IF /\ orders[c[2]].canCancel
              /\ orders[c[2]].status \notin {"delivered", "cancelled"}
           THEN resp'.status = 200
           ELSE /\ resp'.status = 400
                /\ UNCHANGED <<users, addrs, products, orders, txns, notifs>>]_vars

\* the cancellation of a delivered order whose canCancel is still set was refused
C9_Witness ==
  /\ resp.op = "cancelOrder" /\ resp.status = 400
  /\ Len(orders) = 1
  /\ orders[1].canCancel /\ orders[1].status = "delivered"

\* C10: a successful cancelOrder leaves the order with status cancelled,
\* canCancel false, canReorder true and its previous orderTracking followed by
\* exactly one 'Order Cancelled' entry; items, amounts and delivery address
\* are as before.
C10_CancelledOrder ==
  [][resp'.status = 200 =>
       \A c \in OrderRequests :
         cancelOrder(c[1], c[2]) =>
           /\ orders'[c[2]].status = "cancelled"
           /\ ~orders'[c[2]].canCancel
           /\ orders'[c[2]].canReorder
           /\ orders'[c[2]].orderTracking = orders[c[2]].orderTracking \o <<"Order Cancelled">>
           /\ orders'[c[2]].items = orders[c[2]].items
           /\ orders'[c[2]].totalAmount = orders[c[2]].totalAmount
           /\ orders'[c[2]].deliveryFee = orders[c[2]].deliveryFee
           /\ orders'[c[2]].discount = orders[c[2]].discount
           /\ orders'[c[2]].finalAmount = orders[c[2]].finalAmount
           /\ orders'[c[2]].deliveryAddress = orders[c[2]].deliveryAddress]_vars

\* an order has just been cancelled after the status route was used
C10_Witness ==
  /\ resp.op = "cancelOrder" /\ resp.status = 200
  /\ orders[resp.id].status = "cancelled"
  /\ orders[resp.id].orderTracking = <<"Order Placed", "Order Cancelled">>
  /\ statusUpdates > 0

\* the ledger entries of order o
LedgerOf(o) == {t \in 1..Len(txns) : txns[t].orderId = o}

\* C15: with requests run one at a time, every order has exactly one ledger
\* entry with its orderId; the entry's amount is the order's finalAmount, and
\* its status is cancelled once the order is cancelled, and before that
\* pending for payment method cod and completed for any other.
C15_OneLedgerEntryPerOrder ==
  \A o \in OrderIds :
    /\ Cardinality(LedgerOf(o)) = 1
    /\ \A t \in LedgerOf(o) :
         /\ txns[t].amount = orders[o].finalAmount
         /\ txns[t].status =
              IF orders[o].status = "cancelled" THEN "cancelled"
              ELSE IF orders[o].paymentMethod = "cod" THEN "pending"
              ELSE "completed"

\* an order paid on delivery has been cancelled while one paid by upi is open
C15_Witness ==
  \E o \in OrderIds, c \in OrderIds :
    /\ orders[o].paymentMethod = "upi" /\ orders[o].status = "pending"
    /\ orders[c].paymentMethod = "cod" /\ orders[c].status = "cancelled"

-----------------------------------------------------------------------------
(* Properties of orders under a changing catalog and address book: C11 to    *)
(* C14 under SpecCatalog                                                     *)

\* the sum of catalog price times quantity over the items of a request
RECURSIVE CatalogTotal(_, _)
CatalogTotal(ps, items) ==
  IF items = <<>> THEN 0
  ELSE ps[Head(items).productId].price * Head(items).quantity + CatalogTotal(ps, Tail(items))

\* the items of a request with every client price replaced by `price`
Repriced(items, price) == [i \in 1..Len(items) |-> [items[i] EXCEPT !.price = price]]

\* prices a client can put on an item
ClientPrices == {0, 225, 999}

\* C11: an order createOrder places has totalAmount equal to the sum of catalog
\* price times quantity over its items, stores the catalog price on every
\* item, and has finalAmount = totalAmount + deliveryFee; the same request with
\* any other client-supplied item prices leads to the same store and reply.
C11_CatalogPriceOnly ==
  [][(resp'.op = "createOrder" /\ resp'.status = 201) =>
       \A r \in CatalogRequests :
         createOrder(r.u, r.items, r.a, r.pm) =>
           LET order == orders'[Len(orders')]
           IN /\ order.totalAmount = CatalogTotal(products, r.items)
              /\ order.finalAmount = order.totalAmount + order.deliveryFee
              /\ \A i \in 1..Len(r.items) :
                   order.items[i].price = products[r.items[i].productId].price
              /\ \A price \in ClientPrices :
                   createOrder(r.u, Repriced(r.items, price), r.a, r.pm)]_vars

\* an order was placed at the catalog price 300 by a request whose item said 0
C11_Witness ==
  /\ resp.op = "createOrder" /\ resp.status = 201
  /\ orders[resp.id].items = <<[productId |-> 1, name |-> "Rice", quantity |-> 1,
                                price |-> 300, image |-> "rice.png"]>>
  /\ orders[resp.id].totalAmount = 300
  /\ orders[resp.id].finalAmount = 340

\* C12: no request changes the item snapshots (product, name, price, image,
\* quantity) or the delivery-address snapshot of an order that exists: not a
\* product update or deletion, not an address update or deletion, and not
\* cancelOrder, rateOrder, reorderOrder or the status route.
C12_SnapshotsNeverChange ==
  [][\A o \in 1..Len(orders) :
       /\ orders'[o].items = orders[o].items
       /\ orders'[o].deliveryAddress = orders[o].deliveryAddress]_vars

\* a cancelled order still names the product and the address as they were when
\* it was placed, after the product was renamed and the address deleted
C12_Witness ==
  \E o \in OrderIds :
    /\ orders[o].status = "cancelled"
    /\ orders[o].items[1].productId = 1 /\ orders[o].items[1].name = "Rice"
    /\ products[1].name = "Basmati"
    /\ orders[o].deliveryAddress = AddressSnapshot(NewAddress(1, "Asha", TRUE))
    /\ addrs[1].deleted

\* an item a reorder can buy again: its product is in the collection, active,
\* in stock, and has at least the item's quantity
Purchasable(item) ==
  /\ item.productId \in 1..Len(products)
  /\ ~products[item.productId].deleted
  /\ products[item.productId].isActive
  /\ products[item.productId].inStock
  /\ products[item.productId].stockCount >= item.quantity

\* product and quantity of every item of a list
Lines(items) == [i \in 1..Len(items) |-> <<items[i].productId, items[i].quantity>>]

\* C13: reorderOrder on the caller's reorderable order keeps the original items
\* whose product is in the collection, active, in stock and sufficient, in
\* their order.  When none remains it answers 400, creates no order and
\* changes no stock; otherwise it answers 201, the new order holds exactly the
\* remaining items, and each product's stockCount drops by exactly the
\* quantity of the remaining items that name it.
C13_ReorderKeepsPurchasable ==
  [][resp'.op = "reorderOrder" =>
       \A r \in OrderRequests :
         (/\ OwnOrder(r[1], r[2])
          /\ orders[r[2]].canReorder
          /\ reorderOrder(r[1], r[2])) =>
           LET remaining == SelectSeq(orders[r[2]].items, Purchasable)
           IN IF remaining = <<>>
              THEN /\ resp'.status = 400
                   /\ UNCHANGED <<orders, products>>
              ELSE /\ resp'.status = 201
                   /\ Len(orders') = Len(orders) + 1
                   /\ Lines(orders'[Len(orders')].items) = Lines(remaining)
                   /\ \A p \in 1..Len(products) :
                        products'[p].stockCount =
                          products[p].stockCount - QuantityOf(remaining, p)]_vars

\* a reorder of a two-item order placed an order with the second item only
C13_Witness ==
  /\ resp.op = "reorderOrder" /\ resp.status = 201
  /\ Len(orders[1].items) = 2
  /\ Len(orders[resp.id].items) = 1
  /\ orders[resp.id].items[1].productId = orders[1].items[2].productId

\* C14: the order a successful reorderOrder creates has the delivery-address
\* snapshot and the payment method of the original order, each of its items
\* carries the product's current name and price, its totalAmount is the sum
\* of current catalog price times quantity and its finalAmount adds the
\* delivery fee for that total; the original order is left as it was.
C14_ReorderCopiesAddressAndReprices ==
  [][(resp'.op = "reorderOrder" /\ resp'.status = 201) =>
       \A r \in OrderRequests :
         (OwnOrder(r[1], r[2]) /\ reorderOrder(r[1], r[2])) =>
           LET original == orders[r[2]]
               new == orders'[Len(orders')]
           IN /\ new.deliveryAddress = original.deliveryAddress
              /\ new.paymentMethod = original.paymentMethod
              /\ \A i \in 1..Len(new.items) :
                   /\ new.items[i].price = products[new.items[i].productId].price
                   /\ new.items[i].name = products[new.items[i].productId].name
              /\ new.totalAmount = CatalogTotal(products, new.items)
              /\ new.finalAmount = new.totalAmount + DeliveryFeeFor(new.totalAmount)
              /\ orders'[r[2]] = original]_vars

\* a reorder placed at the new price 300 an item the original order holds at
\* 225, with the original address snapshot although the address was renamed since
C14_Witness ==
  /\ resp.op = "reorderOrder" /\ resp.status = 201
  /\ orders[1].items[1].price = 225
  /\ orders[resp.id].items[1].price = 300
  /\ orders[resp.id].items[1].productId = orders[1].items[1].productId
  /\ orders[resp.id].deliveryAddress = orders[1].deliveryAddress
  /\ orders[resp.id].paymentMethod = orders[1].paymentMethod
  /\ addrs[1].name = "Office"

-----------------------------------------------------------------------------
(* The auth guard: C16 under SpecAuth                                        *)

\* a request with credential cred to one of the guarded routes
AuthRequest(cred) ==
  \/ authDeactivateAccount(cred)
  \/ \E id \in 1..MaxAddrs : authSetDefaultAddress(cred, id)
  \/ \E id \in 1..MaxAddrs : authDeleteAddress(cred, id)
  \/ \E b \in AuthBodies : authCreateOrder(cred, b.items, b.a, b.pm)
  \/ \E id \in 1..MaxOrders : authCancelOrder(cred, id)

\* the credential verifies, and its user is in the collection and active
Entitled(cred) ==
  /\ cred.kind = "valid"
  /\ cred.id \in 1..Len(users)
  /\ users[cred.id].isActive

\* C16: a request to a guarded route whose credential is missing, invalid or
\* expired, or names a user who is not in the collection or is deactivated
\* when the guard loads it, is answered 401 and writes nothing to any
\* collection; so a reply other than 401, and every write, comes from a
\* request with a verifying credential of an existing, active user.
C16_GuardedRoutes ==
  [][\/ /\ resp'.status = 401
        /\ UNCHANGED <<users, addrs, products, orders, txns, notifs>>
     \/ \A cred \in Credentials : AuthRequest(cred) => Entitled(cred)]_vars

\* a deactivated user's verifying credential was turned away after that user
\* had placed an order
C16_Witness ==
  /\ resp.status = 401 /\ resp.msg = "User account is deactivated."
  /\ \E u \in UserIds : ~users[u].isActive /\ \E o \in OrderIds : orders[o].userId = u

-----------------------------------------------------------------------------
(* Ownership of orders and addresses: C17 under SpecOwner                    *)

\* order id belongs to a user other than u
ForeignOrder(u, id) == id \in 1..Len(orders) /\ orders[id].userId \notin {u}

\* address id belongs to a user other than u
ForeignAddress(u, id) ==
  id \in 1..Len(addrs) /\ ~addrs[id].deleted /\ addrs[id].userId \notin {u}

\* a reply 404 that leaves every collection as it was
NotFoundNothingChanged ==
  /\ resp'.status = 404
  /\ UNCHANGED <<users, addrs, products, orders, txns, notifs>>

\* getOrder, cancelOrder and reorderOrder on another user's order, and
\* deleteAddress and setDefaultAddress on another user's address
ForeignRequestsRefused ==
  /\ resp'.op = "getOrder" =>
       \A r \in OrderRequests :
         (ForeignOrder(r[1], r[2]) /\ getOrder(r[1], r[2])) => NotFoundNothingChanged
  /\ resp'.op = "cancelOrder" =>
       \A r \in OrderRequests :
         (ForeignOrder(r[1], r[2]) /\ cancelOrder(r[1], r[2])) => NotFoundNothingChanged
  /\ resp'.op = "reorderOrder" =>
       \A r \in OrderRequests :
         (ForeignOrder(r[1], r[2]) /\ reorderOrder(r[1], r[2])) => NotFoundNothingChanged
  /\ resp'.op = "deleteAddress" =>
       \A u \in ObjectIds, id \in 1..MaxAddrs :
         (ForeignAddress(u, id) /\ deleteAddress(u, id)) => NotFoundNothingChanged
  /\ resp'.op = "setDefaultAddress" =>
       \A u \in ObjectIds, id \in 1..MaxAddrs :
         (ForeignAddress(u, id) /\ setDefaultAddress(u, id)) => NotFoundNothingChanged

-----------------------------------------------------------------------------
(* Overlapping setDefaultAddress requests: C19 under SpecDefault             *)

\* the request that answered last
LastFinished ==
  CHOOSE p \in Requests \ Running : \A q \in Requests \ Running :
    inflight[q].finished <= inflight[p].finished

\* C19: two setDefaultAddress requests of one user on two different addresses
\* can interleave so that both addresses end with isDefault = true (the state
\* C19_Witness describes).  What the handler does guarantee: when no request
\* started while another was running, the default addresses of the user
\* whose request answered last are exactly that request's address, and a user
\* has two or more default addresses only after requests that overlapped.
C19_OneDefaultUnlessOverlapped ==
  /\ (Running = {} /\ Requests # {} /\ \A p \in Requests : ~inflight[p].overlapped) =>
       DefaultsOf(addrs, inflight[LastFinished].u) = {inflight[LastFinished].id}
  /\ \A u \in UserIds :
       Cardinality(DefaultsOf(addrs, u)) > 1 => \E p \in Requests : inflight[p].overlapped

\* both requests of one user have answered and both addresses are default
C19_Witness ==
  /\ Len(inflight) = 2 /\ Running = {}
  /\ inflight[1].u = inflight[2].u
  /\ inflight[1].id # inflight[2].id
  /\ addrs[inflight[1].id].isDefault
  /\ addrs[inflight[2].id].isDefault
  /\ resp.status = 200

-----------------------------------------------------------------------------
(* Overlapping and failing createOrder requests: C18 and C20 under SpecRace  *)

\* the quantity of product pr that the stock updates made so far by the first
\* n requests have taken
RECURSIVE Applied(_, _)
Applied(n, pr) ==
  IF n = 0 THEN 0
  ELSE Applied(n - 1, pr)
         + QuantityOf(SubSeq(inflight[n].orderItems, 1, inflight[n].written), pr)

\* every stock update made is in the counters, exactly once
StockAccounted ==
  \A pr \in 1..Len(products) :
    /\ products[pr].stockCount = MaxStock - Applied(Len(inflight), pr)
    /\ products[pr].totalSold = Applied(Len(inflight), pr)

\* C18: two createOrder requests for the same product can interleave so that
\* both read the product and pass the stock check before either decrements,
\* both orders are persisted, and the quantities together exceed the stock
\* both read, leaving stockCount below zero (the state C18_Witness
\* describes).  Every accepted item had at least its quantity in stock when
\* it was read, every stock update is applied in full whatever the stock is
\* by then, and (for item lists that name a product once) stockCount is
\* below zero only after requests that overlapped.
C18_OversellNeedsOverlap ==
  /\ StockAccounted
  /\ \A p \in Requests : \A i \in 1..Len(inflight[p].orderItems) :
       inflight[p].reads[i] >= inflight[p].orderItems[i].quantity
  /\ (\E pr \in 1..Len(products) : products[pr].stockCount < 0) =>
       \E p \in Requests : inflight[p].overlapped

\* both requests were answered 201 for the first product, each after reading
\* the full stock, and the stock is below zero
C18_Witness ==
  /\ Len(inflight) = 2 /\ Len(orders) = 2
  /\ \A p \in Requests :
       /\ inflight[p].outcome = "placed"
       /\ orders[inflight[p].orderId].items = inflight[p].orderItems
       /\ Len(inflight[p].orderItems) = 1
       /\ inflight[p].orderItems[1].productId = 1
       /\ inflight[p].reads[1] = MaxStock
  /\ inflight[1].orderItems[1].quantity + inflight[2].orderItems[1].quantity > MaxStock
  /\ products[1].stockCount < 0

\* the position of a side-effect write in the handler
Position(effect) == CHOOSE i \in 1..Len(SideEffects) : SideEffects[i] = effect

\* request p has made the side-effect write `effect`
Made(p, effect) ==
  LET e == inflight[p]
  IN \/ e.outcome = "placed"
     \/ e.outcome = "error" /\ Position(effect) < Position(e.failedAt)
     \/ e.pc \in SideEffectSet /\ Position(effect) < Position(e.pc)

\* what a request whose write failed has left in the store: its order, as
\* created, and each side-effect write it made before the failure
LeftCommitted(p) ==
  LET e == inflight[p]
  IN /\ e.orderId \in 1..Len(orders)
     /\ orders[e.orderId].userId = e.u
     /\ orders[e.orderId].items = e.orderItems
     /\ orders[e.orderId].status = "pending"
     /\ Cardinality(LedgerOf(e.orderId)) = IF Made(p, "ledger") THEN 1 ELSE 0
     /\ \A n \in 1..Len(notifs) : notifs[n].orderId # e.orderId
     /\ e.written = IF Made(p, "stock") THEN Len(e.orderItems) ELSE e.written

\* C20: when a side-effect write of createOrder (a stock update, the user
\* counter update, the ledger insert or the notification insert) fails after
\* the order is persisted, the request is answered with an error, the failing
\* step changes nothing in the store, and from then on the order stays as
\* created together with every side-effect write made before the failure:
\* the stock updates applied, the user counters when that write was made, and
\* the ledger entry when that insert was made.
C20_NoRollback ==
  /\ [](/\ \A p \in Requests : inflight[p].outcome = "error" => LeftCommitted(p)
        /\ StockAccounted
        /\ \A u \in UserIds :
             users[u].totalOrders =
               Cardinality({p \in Requests : inflight[p].u = u /\ Made(p, "user")}))
  /\ [][\A p \in 1..MaxInflight :
          raceFail(p) =>
            /\ resp'.status >= 500
            /\ UNCHANGED <<users, addrs, products, orders, txns, notifs>>]_vars

\* a request failed at the ledger insert: its order is there, its stock is
\* taken and its user counted, and the ledger has no entry for the order
C20_Witness ==
  \E p \in Requests :
    /\ inflight[p].outcome = "error" /\ inflight[p].failedAt = "ledger"
    /\ resp.status = 500
    /\ orders[inflight[p].orderId].status = "pending"
    /\ products[1].stockCount < MaxStock
    /\ users[inflight[p].u].totalOrders = 1
    /\ LedgerOf(inflight[p].orderId) = {}

-----------------------------------------------------------------------------
(* Counters of the order workflow: C23 and C25 under SpecPlace               *)

\* C23: with requests run one at a time from a catalog whose stockCount is
\* not negative, after any sequence of createOrder, reorderOrder and
\* cancelOrder every product's stockCount is >= 0, also when one createOrder
\* request names the same product in more than one item.
C23_StockNeverNegative ==
  \A p \in 1..Len(products) : products[p].stockCount >= 0

\* the orders of user u that are not cancelled
LiveOrders(u) == {o \in OrderIds : orders[o].userId = u /\ orders[o].status # "cancelled"}

\* the sum of finalAmount over a set of orders
RECURSIVE SumFinalAmount(_)
SumFinalAmount(os) ==
  IF os = {} THEN 0
  ELSE LET o == CHOOSE x \in os : TRUE
       IN orders[o].finalAmount + SumFinalAmount(os \ {o})

\* C25: with requests run one at a time and no failing write, after any
\* sequence of createOrder, reorderOrder and cancelOrder every user's
\* totalOrders is the number of that user's orders that are not cancelled and
\* totalSpent is the sum of their finalAmount; neither is negative.
C25_UserCounters ==
  \A u \in UserIds :
    /\ users[u].totalOrders = Cardinality(LiveOrders(u))
    /\ users[u].totalSpent = SumFinalAmount(LiveOrders(u))
    /\ users[u].totalOrders >= 0
    /\ users[u].totalSpent >= 0

\* a user with one cancelled and one open order is counted with one order
C25_Witness ==
  \E u \in UserIds :
    /\ users[u].totalOrders = 1
    /\ users[u].totalSpent > 0
    /\ \E o \in OrderIds : orders[o].userId = u /\ orders[o].status = "cancelled"
    /\ \E o \in OrderIds : orders[o].userId = u /\ orders[o].status = "pending"

-----------------------------------------------------------------------------
(* Status and flags of an order: C26 under SpecFlags                         *)

FlagsAgree(order) ==
  /\ order.canReorder <=> order.status = "cancelled"
  /\ order.status = "cancelled" => ~order.canCancel

CreatedPending(order) ==
  /\ order.status = "pending"
  /\ order.canCancel
  /\ ~order.canReorder
  /\ ~order.canRate

\* C26: in every state reachable through createOrder, reorderOrder,
\* cancelOrder and rateOrder: an order is created with status pending,
\* canCancel true, canReorder false and canRate false; canReorder is true
\* exactly when the status is cancelled; a cancelled order has canCancel
\* false; and the status of a cancelled order never changes again.
C26_StatusAndFlags ==
  /\ [](\A o \in OrderIds : FlagsAgree(orders[o]))
  /\ [][/\ \A o \in 1..Len(orders') : o \notin OrderIds => CreatedPending(orders'[o])
        /\ \A o \in OrderIds :
             orders[o].status = "cancelled" => orders'[o].status = "cancelled"]_vars

\* a cancelled order has been reordered: the old order stays cancelled and
\* the new one is pending
C26_Witness ==
  /\ resp.op = "reorderOrder"
  /\ resp.status = 201
  /\ \E o \in OrderIds : orders[o].status = "cancelled" /\ orders[o].canReorder
  /\ \E o \in OrderIds : CreatedPending(orders[o])

-----------------------------------------------------------------------------
(* Cancellation effects: C24 under SpecCancel                                *)

\* the cancelOrder requests for order o that have made write w
Cancelling(o, w) == {p \in Requests : inflight[p].id = o /\ w \in inflight[p].applied}

\* C24: for every order, the stock and totalSold restoration and the
\* decrement of the user's totalOrders and totalSpent are made by at most one
\* cancelOrder request, also when two requests for the same order interleave.
C24_CancelledOnce ==
  \A o \in OrderIds :
    /\ Cardinality(Cancelling(o, "stock")) <= 1
    /\ Cardinality(Cancelling(o, "user")) <= 1

-----------------------------------------------------------------------------
(* Order numbers: C27 under SpecNumber                                       *)

\* request p was refused by the unique index and has written nothing
RefusedDuplicate(p) ==
  /\ inflight[p].pc = "done"
  /\ inflight[p].orderId = 0
  /\ inflight[p].written = 0

\* C27: in every reachable state, also after createOrder and reorderOrder
\* requests that interleave, the stored orders have pairwise different
\* orderNumber values; a request whose number 'HRA' + (count of stored
\* orders + 1) is the number of a stored order is answered with an error, no
\* order is stored for it, and it changes no stock, user counter or ledger.
C27_OrderNumbersDiffer ==
  /\ [](/\ \A o1, o2 \in OrderIds : o1 # o2 => orders[o1].orderNumber # orders[o2].orderNumber
        /\ \A p \in Requests : inflight[p].outcome = "duplicate" => RefusedDuplicate(p))
  /\ [][\A p \in 1..MaxInflight :
          (raceInsert(p) /\ ~OrderNumberFree(orders, OrderNumber(inflight[p].count))) =>
            /\ resp'.status >= 400
            /\ UNCHANGED <<orders, products, users, txns, notifs>>]_vars

\* a reorderOrder request and a createOrder request counted the same orders:
\* one was stored, the other refused
C27_Witness ==
  \E p, q \in Requests :
    /\ inflight[p].op = "reorderOrder" /\ inflight[q].op = "createOrder"
    /\ inflight[p].count = inflight[q].count
    /\ {inflight[p].outcome, inflight[q].outcome} = {"placed", "duplicate"}
    /\ resp.status \in {201, 500}

-----------------------------------------------------------------------------
(* Deactivated accounts: C28 under SpecLogin                                 *)

\* a step is a guarded request carrying the verifying token of user u
GuardedRequestOf(u) == AuthRequest(Token("valid", u))

\* no operation sets isActive back to true, and a deactivated user's token
\* is answered 401 by the guard
StaysDeactivated ==
  \A u \in UserIds :
    ~users[u].isActive =>
      /\ u \in 1..Len(users') /\ ~users'[u].isActive
      /\ GuardedRequestOf(u) => resp'.status = 401

\* C28 as stated: after deactivateAccount has completed for a user, every
\* later guarded request of that user and every later login naming that
\* user's phone is answered 401, and isActive never becomes true again.
C28_Always401 ==
  [][/\ StaysDeactivated
     /\ resp'.op = "login" =>
          \A u \in UserIds, password \in LoginPasswords :
            (~users[u].isActive /\ login(users[u].phone, password)) =>
              resp'.status = 401]_vars

\* C28, amended: after deactivateAccount has completed for a user, isActive
\* never becomes true again, every later guarded request of that user is
\* answered 401, and every later login naming that user's phone is refused:
\* with 401 when the body passes validation, with 400 when it does not.
C28_DeactivatedRefused ==
  [][/\ StaysDeactivated
     /\ resp'.op = "login" =>
          \A u \in UserIds, password \in LoginPasswords :
            (~users[u].isActive /\ login(users[u].phone, password)) =>
              /\ resp'.status = IF LoginValid(users[u].phone, password) THEN 401 ELSE 400
              /\ resp'.id = 0]_vars

\* a user who placed an order and then deactivated the account has logged in
\* with the right password and was told the account is deactivated
C28_Witness ==
  /\ resp.op = "login"
  /\ resp.status = 401
  /\ resp.msg = "Account is deactivated. Please contact support."
  /\ \E u \in UserIds :
       /\ ~users[u].isActive
       /\ \E o \in OrderIds : orders[o].userId = u

-----------------------------------------------------------------------------
(* Notifications: C21 under SpecNotif                                        *)

\* the step marks notification n read, in one of the two requests that do
MarkedAsRead(n) ==
  /\ ~notifs[n].isRead
  /\ notifs'[n] = [notifs[n] EXCEPT !.isRead = TRUE]
  /\ resp'.op \in {"markAsRead", "markAllAsRead"}

Unread(ns, u) == {n \in 1..Len(ns) : ns[n].userId = u /\ ~ns[n].deleted /\ ~ns[n].isRead}

\* C21: the isRead flag of a notification changes only from false to true,
\* in a markAsRead or markAllAsRead request of its owner, and its other
\* fields never change; after markAllAsRead of a user that user has no
\* unread notification and the notifications of every other user are
\* unchanged.
C21_ReadOnlyByOwner ==
  [][/\ \A n \in NotifIds :
          /\ n \in 1..Len(notifs')
          /\ \/ notifs'[n] = notifs[n]
             \/ notifs'[n] = [notifs[n] EXCEPT !.deleted = TRUE]
             \/ MarkedAsRead(n)
     /\ resp'.op = "markAsRead" =>
          \A u \in ObjectIds, id \in NotifTargets :
            markAsRead(u, id) =>
              \A n \in 1..Len(notifs) :
                notifs'[n] # notifs[n] => n = id /\ notifs[n].userId = u
     /\ resp'.op = "markAllAsRead" =>
          \A u \in ObjectIds :
            markAllAsRead(u) =>
              /\ Unread(notifs', u) = {}
              /\ Len(notifs') = Len(notifs)
              /\ \A n \in 1..Len(notifs) : notifs[n].userId # u => notifs'[n] = notifs[n]]_vars

\* markAllAsRead of one user has just marked two notifications read, while the
\* other user still has an unread one
C21_Witness ==
  /\ resp.op = "markAllAsRead"
  /\ \E u, w \in ObjectIds :
       /\ u # w
       /\ Cardinality({n \in NotifIds : notifs[n].userId = u /\ notifs[n].isRead}) >= 2
       /\ Unread(notifs, u) = {}
       /\ Unread(notifs, w) # {}

-----------------------------------------------------------------------------
(* The product list: C30 under SpecBrowse                                    *)

\* the category parameter is not an id and is the name of no category
UnknownCategory(category) ==
  category # "" /\ ~IsObjectId(category) /\ CategoriesNamed(category) = {}

\* C30: getProducts with a category parameter that is not a 24-hex-digit id
\* and matches the name of no category answers 200 with count 0, total 0,
\* totalPages 0, hasNextPage false, hasPrevPage false and an empty product
\* list, for every page and limit.
C30_UnknownCategoryEmptyList ==
  [][\A category \in CategoryParams, page \in PageParams, limit \in LimitParams :
       (UnknownCategory(category) /\ getProducts(category, page, limit)) =>
         /\ resp'.status = 200
         /\ resp'.about = NothingFound(PageNum(page))]_vars

====
